---- MODULE Spec2Model ----
(***************************************************************************)
(* CureSight: the analyze-symptoms and medication-info edge functions      *)
(* (keyword override matcher, model response validator/sanitizer, the      *)
(* patient_queries log) as a state machine.  Text is kept as strings and   *)
(* the string operations of the handlers (toLowerCase, toUpperCase, trim,  *)
(* includes, replace with a /gi regular expression) are computed character *)
(* by character.                                                           *)
(***************************************************************************)
EXTENDS Integers, Sequences, FiniteSets, TLC

(***************************************************************************)
(* Bounds of the model.                                                    *)
(***************************************************************************)
\* Requests served one after the other in a behaviour of Spec.
MaxRequests == 2
\* Fragments concatenated into one safe_guidance text in SpecValidator.
MaxFrags == 2

(***************************************************************************)
(* JavaScript string operations (ASCII).                                   *)
(***************************************************************************)
UpperLetters == "ABCDEFGHIJKLMNOPQRSTUVWXYZ"
LowerLetters == "abcdefghijklmnopqrstuvwxyz"

CharAt(s, i) == SubSeq(s, i, i)

LowerMap ==
    [c \in {CharAt(UpperLetters, i) : i \in 1..26} |->
        CharAt(LowerLetters, CHOOSE i \in 1..26 : CharAt(UpperLetters, i) = c)]

UpperMap ==
    [c \in {CharAt(LowerLetters, i) : i \in 1..26} |->
        CharAt(UpperLetters, CHOOSE i \in 1..26 : CharAt(LowerLetters, i) = c)]

LowerChar(c) == IF c \in DOMAIN LowerMap THEN LowerMap[c] ELSE c
UpperChar(c) == IF c \in DOMAIN UpperMap THEN UpperMap[c] ELSE c

\* The characters a..b of s, each mapped, in order.
RECURSIVE LowerFrom(_, _, _)
LowerFrom(s, a, b) ==
    IF a > b THEN ""
    ELSE IF a = b THEN LowerChar(CharAt(s, a))
    ELSE LowerFrom(s, a, (a + b) \div 2) \o LowerFrom(s, (a + b) \div 2 + 1, b)

RECURSIVE UpperFrom(_, _, _)
UpperFrom(s, a, b) ==
    IF a > b THEN ""
    ELSE IF a = b THEN UpperChar(CharAt(s, a))
    ELSE UpperFrom(s, a, (a + b) \div 2) \o UpperFrom(s, (a + b) \div 2 + 1, b)

ToLowerCase(s) == LowerFrom(s, 1, Len(s))
ToUpperCase(s) == UpperFrom(s, 1, Len(s))

\* String.prototype.includes: a case-sensitive substring test.
Includes(s, t) ==
    \E i \in 1..(Len(s) - Len(t) + 1) : SubSeq(s, i, i + Len(t) - 1) = t

RECURSIVE TrimStart(_)
TrimStart(s) ==
    IF Len(s) > 0 /\ CharAt(s, 1) = " " THEN TrimStart(SubSeq(s, 2, Len(s))) ELSE s

RECURSIVE TrimEnd(_)
TrimEnd(s) ==
    IF Len(s) > 0 /\ CharAt(s, Len(s)) = " " THEN TrimEnd(SubSeq(s, 1, Len(s) - 1)) ELSE s

Trim(s) == TrimEnd(TrimStart(s))

\* The matches of a case-insensitive pattern are those of its lower-cased
\* text in the lower-cased string (low); the text kept is the original's (s).
RECURSIVE ReplaceFrom(_, _, _, _, _)
ReplaceFrom(s, low, pattern, rep, i) ==
    LET at == {j \in i..(Len(s) - Len(pattern) + 1) : SubSeq(low, j, j + Len(pattern) - 1) = pattern}
    IN  IF at = {} THEN SubSeq(s, i, Len(s))
        ELSE LET j == CHOOSE x \in at : \A y \in at : x <= y
             IN  SubSeq(s, i, j - 1) \o rep \o ReplaceFrom(s, low, pattern, rep, j + Len(pattern))

\* The replacement without the g flag: the first match only.
ReplaceFirstCI(s, term, rep) ==
    LET low == ToLowerCase(s)
        pattern == ToLowerCase(term)
        at == {i \in 1..(Len(s) - Len(pattern) + 1) : SubSeq(low, i, i + Len(pattern) - 1) = pattern}
    IN  IF Len(term) = 0 \/ at = {} THEN s
        ELSE LET i == CHOOSE x \in at : \A y \in at : x <= y
             IN  SubSeq(s, 1, i - 1) \o rep \o SubSeq(s, i + Len(pattern), Len(s))

\* s.replace(new RegExp(term, 'gi'), rep): left to right, non-overlapping, every match.
ReplaceAllCI(s, term, rep) ==
    IF Len(term) = 0 THEN s
    ELSE ReplaceFrom(s, ToLowerCase(s), ToLowerCase(term), rep, 1)

(***************************************************************************)
(* JSON values: a tag and, for a string, number or boolean, its text.      *)
(***************************************************************************)
JStr(s) == [t |-> "str", s |-> s]
JNum(s) == [t |-> "num", s |-> s]
JBool(s) == [t |-> "bool", s |-> s]
JNull == [t |-> "null", s |-> ""]
JArr == [t |-> "arr", s |-> ""]
Absent == [t |-> "absent", s |-> ""]

\* JavaScript's !v
Falsy(v) ==
    \/ v.t \in {"absent", "null"}
    \/ v.t = "str" /\ v.s = ""
    \/ v.t = "num" /\ v.s = "0"
    \/ v.t = "bool" /\ v.s = "false"

(***************************************************************************)
(* Constants of the analyze-symptoms function.                             *)
(***************************************************************************)
PROHIBITED_MEDICATION_TYPES ==
    << "antibiotic", "steroid", "injection", "insulin",
       "controlled substance", "prescription drug", "narcotic",
       "immunosuppressant", "chemotherapy", "antiviral prescription" >>

\* A replacement text that names a listed category itself.
NeutralPhraseNamingTerm == "prescription drug (consult doctor)"
NeutralPhrase == "medication (consult doctor)"
EmergencyRecommendation == "Emergency medical attention"
validSeverities == {"LOW", "MODERATE", "HIGH", "CRITICAL"}

TriageFallback ==
    [ disease_category |-> JStr("General Health Concern"),
      severity |-> JStr("MODERATE"),
      recommendation |-> JStr("Consult a doctor"),
      reason |-> JStr("Unable to analyze symptoms accurately. Please seek professional medical evaluation."),
      safe_guidance |-> JStr("Please consult a healthcare provider for proper assessment and guidance."),
      is_override |-> Absent ]

(***************************************************************************)
(* The model's message content: a sequence of tokens.  A token is a run of *)
(* prose, a code fence, a stray brace, a bare JSON scalar, or the text of  *)
(* one well-formed JSON object (kept with the object it denotes).          *)
(***************************************************************************)
NoFields ==
    [ disease_category |-> Absent, severity |-> Absent, recommendation |-> Absent,
      reason |-> Absent, safe_guidance |-> Absent, is_override |-> Absent ]

Prose == [k |-> "prose", v |-> NoFields]
Fence == [k |-> "fence", v |-> NoFields]
LBrace == [k |-> "lbrace", v |-> NoFields]
RBrace == [k |-> "rbrace", v |-> NoFields]
Scalar == [k |-> "scalar", v |-> NoFields]
Obj(o) == [k |-> "obj", v |-> o]

SetMin(S) == CHOOSE x \in S : \A y \in S : x <= y
SetMax(S) == CHOOSE x \in S : \A y \in S : x >= y

\* cleanContent.match(/```(?:json)?\s*([\s\S]*?)```/): the text between the first
\* fence and the next one, when there are two.
StripFence(c) ==
    LET fences == {i \in 1..Len(c) : c[i].k = "fence"}
    IN  IF Cardinality(fences) >= 2
        THEN LET a == SetMin(fences)
                 b == SetMin(fences \ {a})
             IN  SubSeq(c, a + 1, b - 1)
        ELSE c

\* cleanContent.match(/\{[\s\S]*\}/): greedy, from the first "{" to the last "}".
ExtractObject(c) ==
    LET opens == {i \in 1..Len(c) : c[i].k \in {"obj", "lbrace"}}
        closes == {i \in 1..Len(c) : c[i].k \in {"obj", "rbrace"}}
    IN  IF opens # {} /\ closes # {} /\ SetMin(opens) <= SetMax(closes)
        THEN SubSeq(c, SetMin(opens), SetMax(closes))
        ELSE c

\* JSON.parse: succeeds on exactly one JSON text.
JsonParses(c) == Len(c) = 1 /\ c[1].k \in {"obj", "scalar"}
JsonParse(c) == c[1].v

(***************************************************************************)
(* The validation steps of analyze-symptoms.                               *)
(***************************************************************************)
\* The required-field check without the recommendation.
MissingRequiredNoRecommendation(o) ==
    Falsy(o.disease_category) \/ Falsy(o.severity)

MissingRequired(o) ==
    Falsy(o.disease_category) \/ Falsy(o.severity) \/ Falsy(o.recommendation)

\* The normalization that upper-cases and keeps whatever value results.
NormalizeSeverityNoCoercion(o) ==
    [o EXCEPT !.severity = JStr(ToUpperCase(o.severity.s))]

NormalizeSeverity(o) ==
    LET up == ToUpperCase(o.severity.s)
    IN  [o EXCEPT !.severity = JStr(IF up \in validSeverities THEN up ELSE "MODERATE")]

\* The validation without the critical enforcement.
EnforceCriticalOmitted(o) == o

EnforceCritical(o) ==
    IF o.severity = JStr("CRITICAL")
    THEN [o EXCEPT !.recommendation = JStr(EmergencyRecommendation),
                   !.safe_guidance = JNull]
    ELSE o

\* The loop over PROHIBITED_MEDICATION_TYPES: the test reads the lower-cased
\* text taken before the loop, the replacement acts on the current text.
RECURSIVE FilterFrom(_, _, _)
FilterFrom(i, guidanceText, cur) ==
    IF i > Len(PROHIBITED_MEDICATION_TYPES) THEN cur
    ELSE LET prohibited == PROHIBITED_MEDICATION_TYPES[i]
         IN  FilterFrom(i + 1, guidanceText,
                        IF Includes(guidanceText, prohibited)
                        THEN ReplaceAllCI(cur, prohibited, NeutralPhrase)
                        ELSE cur)

MedicationSafetyFilter(text) == FilterFrom(1, ToLowerCase(text), text)

\* The filter applied to every text field of the result.
FilterEveryField(o) ==
    [f \in DOMAIN o |->
        IF f # "severity" /\ o[f].t = "str" /\ o[f].s # ""
        THEN JStr(MedicationSafetyFilter(o[f].s)) ELSE o[f]]

FilterGuidance(o) ==
    IF Falsy(o.safe_guidance) THEN o
    ELSE [o EXCEPT !.safe_guidance = JStr(MedicationSafetyFilter(o.safe_guidance.s))]

\* What makes the try block throw: no JSON text, a missing required field, or
\* a method of String called on a value that is not a string.
ValidationThrows(content) ==
    LET c == ExtractObject(StripFence(content))
    IN  \/ ~JsonParses(c)
        \/ MissingRequired(JsonParse(c))
        \/ JsonParse(c).severity.t # "str"
        \/ LET o == EnforceCritical(NormalizeSeverity(JsonParse(c)))
           IN  ~Falsy(o.safe_guidance) /\ o.safe_guidance.t # "str"

ValidateSteps(o) == FilterGuidance(EnforceCritical(NormalizeSeverity(o)))

\* The try/catch with a catch block that assigns no fallback.
ValidateTriageNoFallback(content) ==
    IF ValidationThrows(content) THEN NoFields
    ELSE ValidateSteps(JsonParse(ExtractObject(StripFence(content))))

\* The try/catch around parsing and validation: the validated object, or the fallback.
ValidateTriage(content) ==
    IF ValidationThrows(content) THEN TriageFallback
    ELSE ValidateSteps(JsonParse(ExtractObject(StripFence(content))))

(***************************************************************************)
(* The validation steps of medication-info.                                *)
(***************************************************************************)
requiredFields ==
    << "medicine_name", "overview", "common_uses", "dosage_info",
       "side_effects", "warnings", "when_to_consult", "disclaimer" >>

NoMedFields == [f \in {requiredFields[i] : i \in 1..Len(requiredFields)} |-> Absent]

MedProse == [k |-> "prose", v |-> NoMedFields]
MedFence == [k |-> "fence", v |-> NoMedFields]
MedObj(o) == [k |-> "obj", v |-> o]

SanitizedDosage == "Follow the doctor's prescription or label instructions. Do not self-medicate."
CanonicalDisclaimer == "This information is for educational purposes only and does not replace professional medical advice. Always consult a qualified healthcare provider."

MedicationFallback(medicineName) ==
    [ medicine_name |-> JStr(medicineName),
      overview |-> JStr("Unable to retrieve information. Please verify the medicine name with a pharmacist."),
      common_uses |-> JStr("Information not available"),
      dosage_info |-> JStr("Consult a healthcare provider for proper dosage instructions"),
      side_effects |-> JStr("Consult a healthcare provider for side effect information"),
      warnings |-> JStr("Always consult a qualified healthcare provider before taking any medication"),
      when_to_consult |-> JStr("Consult a doctor or pharmacist for guidance on this medicine"),
      disclaimer |-> JStr("This information is for educational purposes only and does not replace professional medical advice.") ]

Digits == "0123456789"
IsDigit(c) == \E i \in 1..10 : CharAt(Digits, i) = c
DosageUnits == {"mg", "ml", "tablet", "pill", "time", "hour"}

\* /\d+\s*(mg|ml|tablets?|pills?|times?|hours?)/i has a match in s
MatchesDosage(s) ==
    LET low == ToLowerCase(s)
    IN  \E j \in 1..Len(low) :
          /\ IsDigit(CharAt(low, j))
          /\ \E k \in (j + 1)..Len(low) :
               /\ \A m \in (j + 1)..(k - 1) : CharAt(low, m) = " "
               /\ \E u \in DosageUnits :
                    /\ k + Len(u) - 1 <= Len(low)
                    /\ SubSeq(low, k, k + Len(u) - 1) = u

\* The validation that keeps the model's dosage_info whatever it holds.
SanitizeDosageOmitted(o) == o

SanitizeDosage(o) ==
    IF MatchesDosage(ToLowerCase(o.dosage_info.s))
    THEN [o EXCEPT !.dosage_info = JStr(SanitizedDosage)]
    ELSE o

\* The test that overwrites only a disclaimer holding neither phrase.
EnforceDisclaimerEitherPhrase(o) ==
    IF /\ ~Includes(ToLowerCase(o.disclaimer.s), "educational")
       /\ ~Includes(ToLowerCase(o.disclaimer.s), "not replace")
    THEN [o EXCEPT !.disclaimer = JStr(CanonicalDisclaimer)]
    ELSE o

EnforceDisclaimer(o) ==
    IF \/ ~Includes(ToLowerCase(o.disclaimer.s), "educational")
       \/ ~Includes(ToLowerCase(o.disclaimer.s), "not replace")
    THEN [o EXCEPT !.disclaimer = JStr(CanonicalDisclaimer)]
    ELSE o

MedValidationThrows(content) ==
    LET c == ExtractObject(StripFence(content))
    IN  \/ ~JsonParses(c)
        \/ \E i \in 1..Len(requiredFields) : Falsy(JsonParse(c)[requiredFields[i]])
        \/ JsonParse(c).dosage_info.t # "str"
        \/ JsonParse(c).disclaimer.t # "str"

\* A validation that fills each missing field from the fallback and keeps the rest.
ValidateMedicationPerField(content, medicineName) ==
    IF ~JsonParses(ExtractObject(StripFence(content))) THEN MedicationFallback(medicineName)
    ELSE LET o == JsonParse(ExtractObject(StripFence(content)))
             filled == [f \in DOMAIN o |->
                          IF Falsy(o[f]) THEN MedicationFallback(medicineName)[f] ELSE o[f]]
         IN  IF filled.dosage_info.t # "str" \/ filled.disclaimer.t # "str"
             THEN MedicationFallback(medicineName)
             ELSE EnforceDisclaimer(SanitizeDosage(filled))

ValidateMedication(content, medicineName) ==
    IF MedValidationThrows(content) THEN MedicationFallback(medicineName)
    ELSE EnforceDisclaimer(SanitizeDosage(JsonParse(ExtractObject(StripFence(content)))))

(***************************************************************************)
(* The stores and the requests.                                            *)
(***************************************************************************)
RuleChest ==
    [ keyword |-> "Chest Pain", category |-> "Cardiac Emergency",
      severity |-> "EMERGENCY", override_text |-> "Chest pain: call emergency services." ]
RuleStroke ==
    [ keyword |-> "stroke", category |-> "Neurological Emergency",
      severity |-> "LOW", override_text |-> "Possible stroke: go to a hospital now." ]
NoRule == [keyword |-> "", category |-> "", severity |-> "", override_text |-> ""]

\* The safety_rules table, in the order the select returns it.
RuleCollections == { <<RuleChest, RuleStroke>>, <<RuleStroke, RuleChest>>, << >> }

\* guidance_content rows of category 'emergency', by language ("" : no row).
GuidanceText(language) == IF language = "en" THEN "Seek emergency care immediately." ELSE ""

AnalyzeRequests ==
    { [symptoms |-> "Severe CHEST pain", prescriptionText |-> "", language |-> "en", medicineName |-> ""],
      [symptoms |-> "chest pain after STROKE", prescriptionText |-> "", language |-> "hi", medicineName |-> ""],
      [symptoms |-> "headache", prescriptionText |-> "Stroke medicine", language |-> "hi", medicineName |-> ""],
      [symptoms |-> "mild cough", prescriptionText |-> "aspirin", language |-> "en", medicineName |-> ""],
      [symptoms |-> "", prescriptionText |-> "stroke kit", language |-> "en", medicineName |-> ""],
      [symptoms |-> "  ", prescriptionText |-> "aspirin", language |-> "en", medicineName |-> ""],
      [symptoms |-> "", prescriptionText |-> "", language |-> "en", medicineName |-> ""] }

MedicationRequests ==
    { [symptoms |-> "", prescriptionText |-> "", language |-> "en", medicineName |-> "Paracetamol"],
      [symptoms |-> "", prescriptionText |-> "", language |-> "hi", medicineName |-> " Amoxil "],
      [symptoms |-> "", prescriptionText |-> "", language |-> "en", medicineName |-> "  "],
      [symptoms |-> "", prescriptionText |-> "", language |-> "en", medicineName |-> ""] }

NoRequest == [symptoms |-> "", prescriptionText |-> "", language |-> "", medicineName |-> ""]

(***************************************************************************)
(* What the external model can answer.                                     *)
(***************************************************************************)
ObjLow ==
    [ disease_category |-> JStr("Respiratory"), severity |-> JStr("low"),
      recommendation |-> JStr("Self-care"), reason |-> JStr("Mild symptoms"),
      safe_guidance |-> JStr("Rest. No Antibiotic or steroid injection."), is_override |-> Absent ]
ObjCritical ==
    [ disease_category |-> JStr("Cardiac"), severity |-> JStr("critical"),
      recommendation |-> JStr("rest at home"), reason |-> JStr("Possible cardiac event"),
      safe_guidance |-> JStr("take Insulin"), is_override |-> Absent ]
ObjBadSeverity == [ObjLow EXCEPT !.severity = JStr("EMERGENCY"), !.safe_guidance = JNull]
ObjNoRecommendation == [ObjLow EXCEPT !.recommendation = JStr("")]
ObjNoCategory == [ObjCritical EXCEPT !.disease_category = Absent]
ObjNoSeverity == [ObjLow EXCEPT !.severity = JNull]
ObjNumSeverity == [ObjLow EXCEPT !.severity = JNum("3")]
ObjArrGuidance == [ObjLow EXCEPT !.safe_guidance = JArr]
ObjNumCategory == [ObjLow EXCEPT !.disease_category = JNum("5"), !.reason = Absent]
ObjTermsElsewhere ==
    [ObjLow EXCEPT !.disease_category = JStr("Steroid reaction"),
                   !.recommendation = JStr("Stop the antibiotic"),
                   !.reason = JStr("Insulin injection site"),
                   !.safe_guidance = JStr("Drink water")]

TriageContents ==
    { <<Obj(ObjLow)>>, <<Prose, Obj(ObjLow), Prose>>, <<Fence, Obj(ObjCritical), Fence>>,
      <<Fence, Obj(ObjLow)>>, <<Obj(ObjCritical)>>, <<Obj(ObjBadSeverity)>>,
      <<Prose>>, <<Scalar>>, <<LBrace, Prose>>, <<Obj(ObjLow), Prose, Obj(ObjLow)>>,
      <<Fence, Prose, Fence, Obj(ObjLow)>>,
      <<Obj(ObjNoRecommendation)>>, <<Obj(ObjNoCategory)>>, <<Obj(ObjNoSeverity)>>,
      <<Obj(ObjNumSeverity)>>, <<Obj(ObjArrGuidance)>>, <<Obj(ObjNumCategory)>>,
      <<Obj(ObjTermsElsewhere)>> }

MedGood ==
    [ medicine_name |-> JStr("Paracetamol"), overview |-> JStr("Pain reliever"),
      common_uses |-> JStr("Fever"), dosage_info |-> JStr("Follow the label"),
      side_effects |-> JStr("Nausea"), warnings |-> JStr("Liver disease"),
      when_to_consult |-> JStr("If fever persists"),
      disclaimer |-> JStr("For EDUCATIONAL purposes; does NOT replace advice.") ]
MedDosage == [MedGood EXCEPT !.dosage_info = JStr("take 500mg twice daily")]
MedTimes == [MedGood EXCEPT !.dosage_info = JStr("2  Tablets every day"), !.disclaimer = JStr("Educational only")]
MedNoWarnings == [MedDosage EXCEPT !.warnings = JStr("")]
MedNumDosage == [MedGood EXCEPT !.dosage_info = JNum("500")]

MedicationContents ==
    { <<MedObj(MedGood)>>, <<MedFence, MedObj(MedDosage), MedFence>>,
      <<MedProse, MedObj(MedTimes)>>, <<MedProse>>,
      <<MedObj(MedNoWarnings)>>, <<MedObj(MedNumDosage)>> }

\* The fetch rejects, the status is not a success, the body is not JSON, the
\* body has no choices array, or it has one (with a message content or not).
ModelFailures == {"network_error", "http_error", "bad_body", "no_choices", "no_content", "empty_content"}

\* error.message of what is thrown in each case
FailureMessage(f) ==
    CASE f = "network_error" -> "error sending request"
      [] f = "http_error" -> "AI API error: upstream unavailable"
      [] f = "bad_body" -> "Unexpected token in JSON"
      [] f = "no_choices" -> "Cannot read properties of undefined"
      [] OTHER -> "No response from AI"

(***************************************************************************)
(* State.                                                                  *)
(***************************************************************************)
VARIABLES
    pc,               \* where the handler of the current request stands
    fn,               \* the edge function serving it
    req,              \* its body
    matchedRule,      \* the rule found by the override matcher, or NoRule
    guidanceData,     \* the text the guidance lookup returned, "" when it returned no data
    analysisResult,   \* the TriageResult under construction
    medicationInfo,   \* the MedicationInfo under construction
    status,           \* the response's status, 0 while there is none
    error,            \* the response's error message, "" when there is none
    modelCalls,       \* calls to the external model made for this request
    aiOutcome,        \* how the model call ended: "" (pending or not made), "ok", or the failure
    aiContent,        \* the message content the model returned (tokens)
    inserts,          \* inserts into patient_queries issued for this request
    insertFailed,     \* the insert of this request returned an error
    log,              \* console.error / console.warn lines of this request
    patient_queries,  \* the patient_queries table
    served,           \* requests received so far
    safety_rules,     \* the safety_rules table
    vphase, vin, vout, \* the validator applied on its own (SpecValidator)
    \* doctor-login
    loginAttempts,       \* the in-memory Map identifier -> {count, lastAttempt}
    attemptHistory,      \* history: per identifier, the permitted attempts of the current run
    now,                 \* Date.now()
    ticks,               \* advances of the clock so far
    scenario,            \* the requests the clients send and how many of them
    lbudget,             \* login requests still to come
    lpc,                 \* per request slot: where its handler stands
    lreq,                \* per request slot: the request
    lresp,               \* per request slot: the response
    doctors,             \* the doctors table
    passkey_audit_logs,  \* the passkey_audit_logs table
    \* text-to-speech
    tpc,                 \* where the handler stands
    treq,                \* the request
    tresp,               \* the response
    retryCount,          \* the loop's counter
    ttsResponse,         \* the loop's response variable: "none", "ok" or "bad"
    tattempts,           \* history: provider calls made for this request
    twaits,              \* history: the backoff waits of this request, in ms
    tlog,                \* console.log lines of the retry loop
    tcache,              \* the audio-cache bucket
    tconfigured,         \* ONSPACE_AI_BASE_URL and ONSPACE_AI_API_KEY are set
    tserved,             \* requests received so far
    \* useDoctorStore and the doctor pages
    session,             \* the store's session, NoSession for null
    doctor_sessions,     \* the doctor_sessions table
    pendingSaves,        \* upserts of saveSession in flight
    pendingLogouts,      \* logouts awaiting their delete
    logins,              \* history: logins so far
    logouts,             \* history: logouts started so far
    view,                \* the page shown
    \* PatientPortal
    mode,                \* 'symptom' or 'medication'
    symptoms,            \* the symptom text
    medicineName,        \* the medicine name
    prescriptionText,    \* the text extracted from a prescription
    isAnalyzing,         \* a request is awaited
    symptomResult,       \* the triage result shown, NoResult for null
    medicationResult,    \* the medication information shown, NoResult for null
    invocations,         \* edge function calls awaited
    \* doctor-signup
    spc,                 \* per request slot: where its handler stands
    sreq,                \* per request slot: the request
    sresp,               \* per request slot: the response
    signups              \* signup requests received so far

loginVars == << loginAttempts, attemptHistory, now, ticks, scenario, lbudget, lpc, lreq, lresp,
                doctors, passkey_audit_logs >>

ttsVars == << tpc, treq, tresp, retryCount, ttsResponse, tattempts, twaits, tlog, tcache,
              tconfigured, tserved >>

storeVars == << session, doctor_sessions, pendingSaves, pendingLogouts, logins, logouts, view >>

portalVars == << mode, symptoms, medicineName, prescriptionText, isAnalyzing, symptomResult,
                 medicationResult, invocations >>

signupVars == << spc, sreq, sresp, signups >>

otherVars == << loginVars, ttsVars, storeVars, portalVars, signupVars >>

vars == << pc, fn, req, matchedRule, guidanceData, analysisResult, medicationInfo, status, error,
           modelCalls, aiOutcome, aiContent, inserts, insertFailed, log,
           patient_queries, served, safety_rules, vphase, vin, vout, otherVars >>

handlerVars == << pc, fn, req, matchedRule, guidanceData, analysisResult, medicationInfo, status, error,
                  modelCalls, aiOutcome, aiContent, inserts, insertFailed, log,
                  patient_queries, served, safety_rules >>

validatorVars == << vphase, vin, vout >>

IdleHandler ==
    /\ pc = "idle"
    /\ fn = ""
    /\ req = NoRequest
    /\ matchedRule = NoRule
    /\ guidanceData = ""
    /\ analysisResult = NoFields
    /\ medicationInfo = NoMedFields
    /\ status = 0
    /\ error = ""
    /\ modelCalls = 0
    /\ aiOutcome = ""
    /\ aiContent = << >>
    /\ inserts = 0
    /\ insertFailed = FALSE
    /\ log = {}
    /\ patient_queries = << >>
    /\ served = 0

\* The request slots of the doctor-login function: Deno.serve runs the handler
\* of a request while another one awaits.
Procs == {1, 2}

NoLoginRequest == [email |-> "", password |-> "", isEmergencyPasskey |-> FALSE, ip |-> ""]

NoDoctor == [id |-> "", email |-> "", password_hash |-> "", full_name |-> "", status |-> ""]

NoResponse ==
    [status |-> 0, success |-> FALSE, error |-> "", role |-> "", message |-> "",
     sessionExpiry |-> 0, doctor |-> NoDoctor]

NoScenario == [pool |-> {}, budget |-> 0, slots |-> {}]

\* doctor-login at rest: an empty Map, no request, empty tables.
IdleLogin ==
    /\ loginAttempts = << >>
    /\ attemptHistory = << >>
    /\ now = 0
    /\ ticks = 0
    /\ scenario = NoScenario
    /\ lbudget = 0
    /\ lpc = [p \in Procs |-> "idle"]
    /\ lreq = [p \in Procs |-> NoLoginRequest]
    /\ lresp = [p \in Procs |-> NoResponse]
    /\ doctors = << >>
    /\ passkey_audit_logs = << >>

NoTtsRequest == [text |-> "", language |-> ""]

NoTtsResponse == [status |-> 0, body |-> ""]

\* text-to-speech at rest.
IdleTts ==
    /\ tpc = "idle"
    /\ treq = NoTtsRequest
    /\ tresp = NoTtsResponse
    /\ retryCount = 0
    /\ ttsResponse = "none"
    /\ tattempts = 0
    /\ twaits = << >>
    /\ tlog = << >>
    /\ tcache = {}
    /\ tconfigured = TRUE
    /\ tserved = 0

NoSession ==
    [id |-> "", email |-> "", fullName |-> "", role |-> "", status |-> "",
     sessionExpiry |-> 0, loginTime |-> 0]

\* useDoctorStore as created: session null.
IdleStore ==
    /\ session = NoSession
    /\ doctor_sessions = {}
    /\ pendingSaves = {}
    /\ pendingLogouts = {}
    /\ logins = 0
    /\ logouts = 0
    /\ view = "login"

NoResult == [fn |-> "", input |-> ""]

\* PatientPortal as mounted.
IdlePortal ==
    /\ mode = "symptom"
    /\ symptoms = ""
    /\ medicineName = ""
    /\ prescriptionText = ""
    /\ isAnalyzing = FALSE
    /\ symptomResult = NoResult
    /\ medicationResult = NoResult
    /\ invocations = {}

NoSignupRequest == [email |-> "", password |-> "", fullName |-> ""]

NoSignupResponse == [status |-> 0, success |-> FALSE, error |-> "", accountStatus |-> ""]

\* doctor-signup at rest.
IdleSignup ==
    /\ spc = [p \in Procs |-> "idle"]
    /\ sreq = [p \in Procs |-> NoSignupRequest]
    /\ sresp = [p \in Procs |-> NoSignupResponse]
    /\ signups = 0

IdleOthers == IdleLogin /\ IdleTts /\ IdleStore /\ IdlePortal /\ IdleSignup

\* The edge functions of analyze-symptoms and medication-info at rest.
IdleTriage ==
    /\ IdleHandler
    /\ safety_rules = <<RuleChest, RuleStroke>>
    /\ vphase = "off"
    /\ vin = << >>
    /\ vout = NoFields

Init ==
    /\ IdleHandler
    /\ safety_rules \in RuleCollections
    /\ vphase = "off"
    /\ vin = << >>
    /\ vout = NoFields
    /\ IdleOthers

(***************************************************************************)
(* analyze-symptoms.                                                       *)
(***************************************************************************)
\* `${symptoms} ${prescriptionText}`.toLowerCase()
FullText(r) == ToLowerCase(r.symptoms \o " " \o r.prescriptionText)

RuleMatches(rule, r) == Includes(FullText(r), ToLowerCase(rule.keyword))

\* A find that ranks the matching rules by severity before taking the first.
FindRuleBySeverity(rows, r) ==
    LET hits == {i \in 1..Len(rows) : RuleMatches(rows[i], r)}
        urgent == {i \in hits : rows[i].severity = "EMERGENCY"}
    IN  IF hits = {} THEN NoRule
        ELSE IF urgent # {} THEN rows[SetMin(urgent)] ELSE rows[SetMin(hits)]

\* rules?.find(...): the first matching rule in the order given, NoRule when
\* there is none or the select returned no data.
FindRule(rows, r) ==
    LET hits == {i \in 1..Len(rows) : RuleMatches(rows[i], r)}
    IN  IF hits = {} THEN NoRule ELSE rows[SetMin(hits)]

\* !symptoms || symptoms.trim().length === 0
SymptomsMissing(r) == r.symptoms = "" \/ Len(Trim(r.symptoms)) = 0

\* !medicineName || medicineName.trim().length === 0
MedicineNameMissing(r) == r.medicineName = "" \/ Len(Trim(r.medicineName)) = 0

\* The override result whose reason prefers the rule's own text.
OverrideResultRuleTextFirst(rule, guidanceText) ==
    [ disease_category |-> JStr(rule.category),
      severity |-> JStr("CRITICAL"),
      recommendation |-> JStr(EmergencyRecommendation),
      reason |-> JStr(IF rule.override_text # "" THEN rule.override_text ELSE guidanceText),
      safe_guidance |-> JNull,
      is_override |-> JBool("true") ]

OverrideResult(rule, guidanceText) ==
    [ disease_category |-> JStr(rule.category),
      severity |-> JStr("CRITICAL"),
      recommendation |-> JStr(EmergencyRecommendation),
      reason |-> JStr(IF guidanceText # "" THEN guidanceText ELSE rule.override_text),
      safe_guidance |-> JNull,
      is_override |-> JBool("true") ]

\* The row without the result's reason.
QueryRecordNoReason(r, result) ==
    [ symptoms_text |-> r.symptoms,
      prescription_text |-> IF r.prescriptionText = "" THEN JNull ELSE JStr(r.prescriptionText),
      disease_category |-> result.disease_category,
      severity |-> result.severity,
      recommendation |-> result.recommendation,
      reason |-> Absent,
      language |-> r.language ]

\* The row handed to patient_queries.insert
QueryRecord(r, result) ==
    [ symptoms_text |-> r.symptoms,
      prescription_text |-> IF r.prescriptionText = "" THEN JNull ELSE JStr(r.prescriptionText),
      disease_category |-> result.disease_category,
      severity |-> result.severity,
      recommendation |-> result.recommendation,
      reason |-> result.reason,
      language |-> r.language ]

\* console.error / console.warn lines of the parse-and-validate block
ValidationLog(content) ==
    LET c == ExtractObject(StripFence(content))
    IN  IF ~JsonParses(c) \/ MissingRequired(JsonParse(c)) \/ JsonParse(c).severity.t # "str"
        THEN {"Failed to parse AI response"}
        ELSE LET o == JsonParse(c)
                 e == EnforceCritical(NormalizeSeverity(o))
             IN  (IF ToUpperCase(o.severity.s) \notin validSeverities
                  THEN {"Invalid severity from AI"} ELSE {})
                 \cup
                 (IF Falsy(e.safe_guidance) THEN {}
                  ELSE IF e.safe_guidance.t # "str" THEN {"Failed to parse AI response"}
                  ELSE IF \E i \in 1..Len(PROHIBITED_MEDICATION_TYPES) :
                            Includes(ToLowerCase(e.safe_guidance.s), PROHIBITED_MEDICATION_TYPES[i])
                  THEN {"Prohibited medication type detected"} ELSE {})

\* The pure steps above on the inputs of this model, computed once.
MatchedRuleOf ==
    [rows \in RuleCollections \cup {<< >>} |-> [r \in AnalyzeRequests |-> FindRule(rows, r)]]
TriageOutcome ==
    [c \in TriageContents |-> [result |-> ValidateTriage(c), log |-> ValidationLog(c)]]

ResetRequest ==
    /\ matchedRule' = NoRule
    /\ guidanceData' = ""
    /\ analysisResult' = NoFields
    /\ medicationInfo' = NoMedFields
    /\ modelCalls' = 0
    /\ aiOutcome' = ""
    /\ aiContent' = << >>
    /\ inserts' = 0
    /\ insertFailed' = FALSE
    /\ log' = {}

\* The request arrives; the input check answers 400 or the rules are selected.
AsReceive ==
    /\ pc \in {"idle", "done"}
    /\ served < MaxRequests
    /\ \E r \in AnalyzeRequests :
         /\ req' = r
         /\ IF SymptomsMissing(r)
            THEN pc' = "done" /\ status' = 400 /\ error' = "Symptoms text is required"
            ELSE pc' = "as_rules" /\ status' = 0 /\ error' = ""
    /\ fn' = "analyze-symptoms"
    /\ served' = served + 1
    /\ ResetRequest
    /\ UNCHANGED << patient_queries, safety_rules, validatorVars, otherVars >>

\* A handler that fails the request when the select returns no rows.
AsRulesFetchedFailing ==
    /\ pc = "as_rules"
    /\ \E rows \in {safety_rules, << >>} :
         LET m == MatchedRuleOf[rows][req]
         IN  /\ matchedRule' = m
             /\ IF rows = << >>
                THEN /\ pc' = "done" /\ status' = 500
                     /\ error' = "Failed to read safety rules"
                ELSE /\ pc' = IF m # NoRule THEN "as_guidance" ELSE "as_model"
                     /\ UNCHANGED << status, error >>
             /\ modelCalls' = IF rows # << >> /\ m = NoRule THEN modelCalls + 1 ELSE modelCalls
    /\ UNCHANGED << fn, req, guidanceData, analysisResult, medicationInfo, aiOutcome,
                    aiContent, inserts, insertFailed, log, patient_queries, served,
                    safety_rules, validatorVars, otherVars >>

\* The select on safety_rules returns (its rows, or no data); the matcher runs;
\* on a match the guidance is looked up, otherwise the model is called.
AsRulesFetched ==
    /\ pc = "as_rules"
    /\ \E rows \in {safety_rules, << >>} :
         LET m == MatchedRuleOf[rows][req]
         IN  /\ matchedRule' = m
             /\ IF m # NoRule
                THEN pc' = "as_guidance" /\ UNCHANGED modelCalls
                ELSE pc' = "as_model" /\ modelCalls' = modelCalls + 1
    /\ UNCHANGED << fn, req, guidanceData, analysisResult, medicationInfo, status, error, aiOutcome,
                    aiContent, inserts, insertFailed, log, patient_queries, served,
                    safety_rules, validatorVars, otherVars >>

\* The guidance lookup returns (the row's text, or no data); the override
\* result is built and its insert issued.
AsGuidanceFetched ==
    /\ pc = "as_guidance"
    /\ \E text \in {GuidanceText(req.language), ""} :
         /\ guidanceData' = text
         /\ analysisResult' = OverrideResult(matchedRule, text)
    /\ inserts' = inserts + 1
    /\ pc' = "as_insert"
    /\ UNCHANGED << fn, req, matchedRule, medicationInfo, status, error, modelCalls,
                    aiOutcome, aiContent, insertFailed, log, patient_queries, served,
                    safety_rules, validatorVars, otherVars >>

\* The same step answering with the fallback object instead of the error.
AsModelFailedFallback ==
    /\ pc = "as_model"
    /\ \E f \in ModelFailures :
         /\ aiOutcome' = f
         /\ log' = log \cup {"Analysis error"}
    /\ analysisResult' = TriageFallback
    /\ status' = 200
    /\ pc' = "done"
    /\ UNCHANGED << fn, req, matchedRule, guidanceData, medicationInfo, error, modelCalls,
                    aiContent, inserts, insertFailed, patient_queries, served, safety_rules,
                    validatorVars, otherVars >>

\* The model call fails, or answers without a message content: the throw
\* reaches the outer catch, which answers 500.
AsModelFailed ==
    /\ pc = "as_model"
    /\ \E f \in ModelFailures :
         /\ aiOutcome' = f
         /\ error' = FailureMessage(f)
         /\ log' = log \cup {"Analysis error"}
                       \cup (IF f = "http_error" THEN {"AI API error"} ELSE {})
    /\ status' = 500
    /\ pc' = "done"
    /\ UNCHANGED << fn, req, matchedRule, guidanceData, analysisResult, medicationInfo, modelCalls,
                    aiContent, inserts, insertFailed, patient_queries, served, safety_rules,
                    validatorVars, otherVars >>

\* The same step storing the row at once, before the validated result is assigned.
AsModelAnsweredStoringFirst ==
    /\ pc = "as_model"
    /\ \E content \in TriageContents :
         /\ aiContent' = content
         /\ analysisResult' = TriageOutcome[content].result
         /\ log' = log \cup TriageOutcome[content].log
    /\ patient_queries' = Append(patient_queries, QueryRecord(req, analysisResult))
    /\ aiOutcome' = "ok"
    /\ inserts' = inserts + 1
    /\ pc' = "as_insert"
    /\ UNCHANGED << fn, req, matchedRule, guidanceData, medicationInfo, status, error, modelCalls,
                    insertFailed, served, safety_rules, validatorVars, otherVars >>

\* The model answers with a message content: it is parsed and validated (or
\* replaced by the fallback) and the insert of the result is issued.
AsModelAnswered ==
    /\ pc = "as_model"
    /\ \E content \in TriageContents :
         /\ aiContent' = content
         /\ analysisResult' = TriageOutcome[content].result
         /\ log' = log \cup TriageOutcome[content].log
    /\ aiOutcome' = "ok"
    /\ inserts' = inserts + 1
    /\ pc' = "as_insert"
    /\ UNCHANGED << fn, req, matchedRule, guidanceData, medicationInfo, status, error, modelCalls,
                    insertFailed, patient_queries, served, safety_rules, validatorVars, otherVars >>

\* The insert returns (the row stored, or an error, which is not read) and
\* the result is sent.
AsInsertDone ==
    /\ pc = "as_insert"
    /\ \E ok \in BOOLEAN :
         /\ insertFailed' = ~ok
         /\ patient_queries' = IF ok THEN Append(patient_queries, QueryRecord(req, analysisResult))
                                     ELSE patient_queries
    /\ status' = 200
    /\ pc' = "done"
    /\ UNCHANGED << fn, req, matchedRule, guidanceData, analysisResult, medicationInfo, error, modelCalls,
                    aiOutcome, aiContent, inserts, log, served, safety_rules, validatorVars, otherVars >>

(***************************************************************************)
(* medication-info.                                                        *)
(***************************************************************************)
MedicationLog(content) ==
    LET c == ExtractObject(StripFence(content))
    IN  IF MedValidationThrows(content) THEN {"Failed to parse AI response"}
        ELSE IF MatchesDosage(ToLowerCase(JsonParse(c).dosage_info.s))
        THEN {"Detected specific dosage in AI response"} ELSE {}

MedicationOutcome ==
    [r \in MedicationRequests |->
        [c \in MedicationContents |->
            [info |-> ValidateMedication(c, r.medicineName), log |-> MedicationLog(c)]]]

\* The same step calling the model before the input check.
MiReceiveModelFirst ==
    /\ pc \in {"idle", "done"}
    /\ served < MaxRequests
    /\ \E r \in MedicationRequests :
         /\ req' = r
         /\ IF MedicineNameMissing(r)
            THEN pc' = "done" /\ status' = 400 /\ error' = "Medicine name is required"
            ELSE pc' = "mi_model" /\ status' = 0 /\ error' = ""
    /\ modelCalls' = 1
    /\ fn' = "medication-info"
    /\ served' = served + 1
    /\ matchedRule' = NoRule
    /\ guidanceData' = ""
    /\ analysisResult' = NoFields
    /\ medicationInfo' = NoMedFields
    /\ aiOutcome' = ""
    /\ aiContent' = << >>
    /\ inserts' = 0
    /\ insertFailed' = FALSE
    /\ log' = {}
    /\ UNCHANGED << patient_queries, safety_rules, validatorVars, otherVars >>

\* The request arrives; the input check answers 400 or the model is called.
MiReceive ==
    /\ pc \in {"idle", "done"}
    /\ served < MaxRequests
    /\ \E r \in MedicationRequests :
         /\ req' = r
         /\ IF MedicineNameMissing(r)
            THEN /\ pc' = "done" /\ status' = 400 /\ error' = "Medicine name is required"
                 /\ modelCalls' = 0
            ELSE /\ pc' = "mi_model" /\ status' = 0 /\ error' = ""
                 /\ modelCalls' = 1
    /\ fn' = "medication-info"
    /\ served' = served + 1
    /\ matchedRule' = NoRule
    /\ guidanceData' = ""
    /\ analysisResult' = NoFields
    /\ medicationInfo' = NoMedFields
    /\ aiOutcome' = ""
    /\ aiContent' = << >>
    /\ inserts' = 0
    /\ insertFailed' = FALSE
    /\ log' = {}
    /\ UNCHANGED << patient_queries, safety_rules, validatorVars, otherVars >>

MiModelFailed ==
    /\ pc = "mi_model"
    /\ \E f \in ModelFailures :
         /\ aiOutcome' = f
         /\ error' = FailureMessage(f)
         /\ log' = log \cup {"Medication info error"}
                       \cup (IF f = "http_error" THEN {"AI API error"} ELSE {})
    /\ status' = 500
    /\ pc' = "done"
    /\ UNCHANGED << fn, req, matchedRule, guidanceData, analysisResult, medicationInfo, modelCalls,
                    aiContent, inserts, insertFailed, patient_queries, served, safety_rules,
                    validatorVars, otherVars >>

\* The same step logging the request in patient_queries, as analyze-symptoms does.
MiModelAnsweredPersisting ==
    /\ pc = "mi_model"
    /\ \E content \in MedicationContents :
         /\ aiContent' = content
         /\ medicationInfo' = MedicationOutcome[req][content].info
         /\ log' = log \cup MedicationOutcome[req][content].log
    /\ patient_queries' = Append(patient_queries, QueryRecord(req, NoFields))
    /\ inserts' = inserts + 1
    /\ aiOutcome' = "ok"
    /\ status' = 200
    /\ pc' = "done"
    /\ UNCHANGED << fn, req, matchedRule, guidanceData, analysisResult, error, modelCalls,
                    insertFailed, served, safety_rules, validatorVars, otherVars >>

\* The model answers with a message content: it is parsed and validated (or
\* replaced by the fallback) and sent; nothing is stored.
MiModelAnswered ==
    /\ pc = "mi_model"
    /\ \E content \in MedicationContents :
         /\ aiContent' = content
         /\ medicationInfo' = MedicationOutcome[req][content].info
         /\ log' = log \cup MedicationOutcome[req][content].log
    /\ aiOutcome' = "ok"
    /\ status' = 200
    /\ pc' = "done"
    /\ UNCHANGED << fn, req, matchedRule, guidanceData, analysisResult, error, modelCalls, inserts,
                    insertFailed, patient_queries, served, safety_rules, validatorVars, otherVars >>

Next ==
    \/ AsReceive
    \/ AsRulesFetched
    \/ AsGuidanceFetched
    \/ AsModelFailed
    \/ AsModelAnswered
    \/ AsInsertDone
    \/ MiReceive
    \/ MiModelFailed
    \/ MiModelAnswered

Spec == Init /\ [][Next]_vars

(***************************************************************************)
(* The triage validator on its own: a message content is drawn, the        *)
(* validator is applied to it.                                             *)
(***************************************************************************)
GuidanceFrags ==
    { "insulin", "sulin", "jection", "INJECTION", "antiviral prescription", " drug",
      "Steroid", "ster", "oid ", "Rest and ", "controlled", " substance" }

RECURSIVE TextsOf(_)
TextsOf(n) ==
    IF n = 0 THEN {""}
    ELSE {t \o f : t \in TextsOf(n - 1), f \in GuidanceFrags}

GuidanceTexts == UNION {TextsOf(n) : n \in 0..MaxFrags}

SeverityInputs == {"low", "High", "Critical", "severe"}

ValidatorInputs ==
    TriageContents
    \cup { <<Obj([ObjLow EXCEPT !.severity = JStr(sv), !.safe_guidance = JStr(t)])>> :
              sv \in SeverityInputs, t \in GuidanceTexts }

VInit ==
    /\ IdleHandler
    /\ safety_rules = <<RuleChest, RuleStroke>>
    /\ vphase = "in"
    /\ vin \in ValidatorInputs
    /\ vout = NoFields
    /\ IdleOthers

VValidate ==
    /\ vphase = "in"
    /\ vout' = ValidateTriage(vin)
    /\ vphase' = "out"
    /\ UNCHANGED << vin, handlerVars, otherVars >>

VNext == VValidate

SpecValidator == VInit /\ [][VNext]_vars

(***************************************************************************)
(* The medication validator on its own: a medicine name and a message      *)
(* content are drawn, the validator is applied to them.                    *)
(***************************************************************************)
DosageFrags ==
    { "take ", "5", "00", "2  ", "mg", "ML", "Tablets", "pill", " daily", "hour", "x", "times" }

RECURSIVE DosageTextsOf(_)
DosageTextsOf(n) ==
    IF n = 0 THEN {""}
    ELSE {t \o f : t \in DosageTextsOf(n - 1), f \in DosageFrags}

DosageTexts == UNION {DosageTextsOf(n) : n \in 0..MaxFrags}

Disclaimers ==
    { "For EDUCATIONAL purposes; does NOT replace advice.", "Educational only",
      "Does not replace a doctor", "not replaceable, Educational", "Ask your doctor" }

FieldNames == {requiredFields[i] : i \in 1..Len(requiredFields)}

MedValidatorInputs ==
    MedicationContents
    \cup { <<MedObj([MedGood EXCEPT !.dosage_info = JStr(t), !.disclaimer = JStr(d)])>> :
              t \in DosageTexts, d \in Disclaimers }
    \cup { <<MedObj([MedDosage EXCEPT ![f] = v])>> :
              f \in FieldNames, v \in {Absent, JNull, JStr("")} }

MVInit ==
    /\ pc = "idle" /\ fn = ""
    /\ req \in {r \in MedicationRequests : ~MedicineNameMissing(r)}
    /\ matchedRule = NoRule /\ guidanceData = ""
    /\ analysisResult = NoFields /\ medicationInfo = NoMedFields
    /\ status = 0 /\ error = "" /\ modelCalls = 0
    /\ aiOutcome = "" /\ aiContent = << >>
    /\ inserts = 0 /\ insertFailed = FALSE /\ log = {}
    /\ patient_queries = << >> /\ served = 0
    /\ safety_rules = <<RuleChest, RuleStroke>>
    /\ vphase = "min"
    /\ vin \in MedValidatorInputs
    /\ vout = NoMedFields
    /\ IdleOthers

MVValidate ==
    /\ vphase = "min"
    /\ vout' = ValidateMedication(vin, req.medicineName)
    /\ vphase' = "mout"
    /\ UNCHANGED << vin, handlerVars, otherVars >>

MVNext == MVValidate

SpecMedValidator == MVInit /\ [][MVNext]_vars

(***************************************************************************)
(* doctor-login: the rate limiter, the emergency passkey path and the      *)
(* account path.  Two requests may be in flight at once; each await of the *)
(* handler ends a step.                                                    *)
(***************************************************************************)
MAX_LOGIN_ATTEMPTS == 5
LOCKOUT_DURATION == 15 * 60 * 1000

PasskeySessionExpiry == 30 * 60 * 1000
DoctorSessionExpiry == 8 * 60 * 60 * 1000

\* Bounds: clock advances, requests of the scenario that exercises every
\* kind of request, requests of the scenario that exhausts the rate limit.
MaxTicks == 2
MaxLoginRequests == 2
MaxAttempts == 7

\* SHA-256 rendered as hex: equal digests only for equal passwords.
hashPassword(password) == "sha256:" \o password

EmergencyPasskey == "open-sesame"

\* The accounts stored when the function starts.
LoginDoctors ==
    << [id |-> "d1", email |-> "ann@hospital.org", password_hash |-> hashPassword("pw-ann"),
        full_name |-> "Ann", status |-> "approved"],
       [id |-> "d2", email |-> "bob@clinic.org", password_hash |-> hashPassword("pw-bob"),
        full_name |-> "Bob", status |-> "pending"],
       [id |-> "d3", email |-> "cy@clinic.org", password_hash |-> hashPassword("pw-cy"),
        full_name |-> "Cy", status |-> "rejected"],
       [id |-> "d4", email |-> "dee@clinic.org", password_hash |-> hashPassword("pw-dee"),
        full_name |-> "Dee", status |-> "suspended"] >>

LoginReq(email, password) ==
    [email |-> email, password |-> password, isEmergencyPasskey |-> FALSE, ip |-> "10.0.0.1"]

PasskeyReq(password, ip) ==
    [email |-> "", password |-> password, isEmergencyPasskey |-> TRUE, ip |-> ip]

AllLoginRequests ==
    { LoginReq("Ann@Hospital.org", "pw-ann"), LoginReq("ann@hospital.org", "guess"),
      LoginReq("bob@clinic.org", "pw-bob"), LoginReq("cy@clinic.org", "pw-cy"),
      LoginReq("dee@clinic.org", "pw-dee"), LoginReq("eve@nowhere.org", "pw-eve"),
      LoginReq("", "pw-ann"), LoginReq("ann@hospital.org", ""),
      PasskeyReq(EmergencyPasskey, "10.0.0.1"), PasskeyReq("guess", "") }

\* A client guessing the password of an account, and the account's owner.
GuessingRequests ==
    { LoginReq("ann@hospital.org", "guess"), LoginReq("Ann@Hospital.org", "pw-ann") }

\* Either every kind of request, one at a time, or many attempts on one
\* account, two at a time.
LoginScenarios ==
    { [pool |-> AllLoginRequests, budget |-> MaxLoginRequests, slots |-> {1}],
      [pool |-> GuessingRequests, budget |-> MaxAttempts, slots |-> Procs] }

\* checkRateLimit with the comparison of the count off by one.
checkRateLimitOffByOne(attempts, identifier, t) ==
    IF identifier \notin DOMAIN attempts
    THEN [ok |-> TRUE, map |-> attempts @@ (identifier :> [count |-> 1, lastAttempt |-> t])]
    ELSE IF t - attempts[identifier].lastAttempt > LOCKOUT_DURATION
    THEN [ok |-> TRUE, map |-> [attempts EXCEPT ![identifier] = [count |-> 1, lastAttempt |-> t]]]
    ELSE IF attempts[identifier].count > MAX_LOGIN_ATTEMPTS
    THEN [ok |-> FALSE, map |-> attempts]
    ELSE [ok |-> TRUE,
          map |-> [attempts EXCEPT ![identifier] = [count |-> @.count + 1, lastAttempt |-> t]]]

\* checkRateLimit recording the time of a rejected attempt as well.
checkRateLimitTouching(attempts, identifier, t) ==
    IF identifier \notin DOMAIN attempts
    THEN [ok |-> TRUE, map |-> attempts @@ (identifier :> [count |-> 1, lastAttempt |-> t])]
    ELSE IF t - attempts[identifier].lastAttempt > LOCKOUT_DURATION
    THEN [ok |-> TRUE, map |-> [attempts EXCEPT ![identifier] = [count |-> 1, lastAttempt |-> t]]]
    ELSE IF attempts[identifier].count >= MAX_LOGIN_ATTEMPTS
    THEN [ok |-> FALSE, map |-> [attempts EXCEPT ![identifier].lastAttempt = t]]
    ELSE [ok |-> TRUE,
          map |-> [attempts EXCEPT ![identifier] = [count |-> @.count + 1, lastAttempt |-> t]]]

\* checkRateLimit(identifier) at time t: whether the attempt is let through,
\* and the Map afterwards.
checkRateLimit(attempts, identifier, t) ==
    IF identifier \notin DOMAIN attempts
    THEN [ok |-> TRUE, map |-> attempts @@ (identifier :> [count |-> 1, lastAttempt |-> t])]
    ELSE IF t - attempts[identifier].lastAttempt > LOCKOUT_DURATION
    THEN [ok |-> TRUE, map |-> [attempts EXCEPT ![identifier] = [count |-> 1, lastAttempt |-> t]]]
    ELSE IF attempts[identifier].count >= MAX_LOGIN_ATTEMPTS
    THEN [ok |-> FALSE, map |-> attempts]
    ELSE [ok |-> TRUE,
          map |-> [attempts EXCEPT ![identifier] = [count |-> @.count + 1, lastAttempt |-> t]]]

\* loginAttempts.delete(identifier)
MapDelete(map, key) == [k \in DOMAIN map \ {key} |-> map[k]]

\* req.headers.get('x-forwarded-for') || 'unknown'
ForwardedFor(r) == IF r.ip = "" THEN "unknown" ELSE r.ip

\* The key of the request in loginAttempts.
LoginIdentifier(r) ==
    IF r.isEmergencyPasskey THEN "passkey_" \o ForwardedFor(r)
    ELSE "doctor_" \o ToLowerCase(r.email)

\* The request reaches checkRateLimit: it has a password and, on the account
\* path, an email.
RateLimited(r) == r.password # "" /\ (r.isEmergencyPasskey \/ r.email # "")

ErrorResponse(code, text) == [NoResponse EXCEPT !.status = code, !.error = text]

TooManyResponse(r) ==
    IF r.isEmergencyPasskey
    THEN ErrorResponse(429, "Too many attempts. Please try again later.")
    ELSE ErrorResponse(429, "Too many login attempts. Please try again in 15 minutes.")

PasskeyGranted ==
    [NoResponse EXCEPT !.status = 200, !.success = TRUE, !.role = "emergency_admin",
                       !.message = "Emergency access granted",
                       !.sessionExpiry = PasskeySessionExpiry]

DoctorGranted(doctor) ==
    [NoResponse EXCEPT !.status = 200, !.success = TRUE, !.role = "doctor",
                       !.doctor = [doctor EXCEPT !.password_hash = ""],
                       !.sessionExpiry = DoctorSessionExpiry]

\* The approval status check: the refusal, NoResponse when there is none.
StatusRefusal(doctor) ==
    IF doctor.status = "pending"
    THEN [ErrorResponse(403, "Account pending approval") EXCEPT
             !.message = "Your account is awaiting admin approval. Please check back later."]
    ELSE IF doctor.status = "rejected" THEN ErrorResponse(403, "Account access denied")
    ELSE NoResponse

\* .from('doctors').select('*').eq('email', e).single(): the row when exactly
\* one matches, no data otherwise.
SingleDoctor(rows, e) ==
    LET hits == {i \in 1..Len(rows) : rows[i].email = e}
    IN  IF Cardinality(hits) = 1 THEN rows[CHOOSE i \in hits : TRUE] ELSE NoDoctor

\* History of the attempts of an identifier: how many permitted attempts the
\* current run holds (each within the lockout duration of the one before),
\* when the last one was let through, when the identifier was last answered
\* 429 (-1: never), and whether no attempt was let through since.
NoHistory == [permits |-> 0, last |-> 0, rejectedAt |-> -1, locked |-> FALSE]

HistoryOf(h, identifier) == IF identifier \in DOMAIN h THEN h[identifier] ELSE NoHistory

HistorySet(h, identifier, v) ==
    IF identifier \in DOMAIN h THEN [h EXCEPT ![identifier] = v] ELSE h @@ (identifier :> v)

HistoryAfter(h, identifier, t, ok) ==
    LET e == HistoryOf(h, identifier)
    IN  IF ok
        THEN HistorySet(h, identifier,
                 [permits |-> IF e.permits > 0 /\ t - e.last <= LOCKOUT_DURATION
                              THEN e.permits + 1 ELSE 1,
                  last |-> t, rejectedAt |-> e.rejectedAt, locked |-> FALSE])
        ELSE HistorySet(h, identifier, [e EXCEPT !.rejectedAt = t, !.locked = TRUE])

loginTables == << doctors, passkey_audit_logs >>

\* The handler up to its first await.
LoginReceive(p, r) ==
    /\ lpc[p] \in {"idle", "done"}
    /\ lbudget > 0
    /\ lbudget' = lbudget - 1
    /\ lreq' = [lreq EXCEPT ![p] = r]
    /\ IF r.password = ""
       THEN /\ lresp' = [lresp EXCEPT ![p] = ErrorResponse(400, "Password is required")]
            /\ lpc' = [lpc EXCEPT ![p] = "done"]
            /\ UNCHANGED << loginAttempts, attemptHistory >>
       ELSE IF ~r.isEmergencyPasskey /\ r.email = ""
       THEN /\ lresp' = [lresp EXCEPT ![p] = ErrorResponse(400, "Email is required")]
            /\ lpc' = [lpc EXCEPT ![p] = "done"]
            /\ UNCHANGED << loginAttempts, attemptHistory >>
       ELSE LET limit == checkRateLimit(loginAttempts, LoginIdentifier(r), now)
            IN  /\ loginAttempts' = limit.map
                /\ attemptHistory' =
                       HistoryAfter(attemptHistory, LoginIdentifier(r), now, limit.ok)
                /\ IF ~limit.ok
                   THEN /\ lresp' = [lresp EXCEPT ![p] = TooManyResponse(r)]
                        /\ lpc' = [lpc EXCEPT ![p] = "done"]
                   ELSE /\ lresp' = [lresp EXCEPT ![p] = NoResponse]
                        /\ lpc' = [lpc EXCEPT ![p] =
                                      IF r.isEmergencyPasskey THEN "config" ELSE "lookup"]
    /\ UNCHANGED << now, ticks, scenario, loginTables >>

\* The system_config select returns: the passkey is compared.
PasskeyConfigFetched(p, found) ==
    /\ lpc[p] = "config"
    /\ IF found /\ EmergencyPasskey = lreq[p].password
       THEN /\ lpc' = [lpc EXCEPT ![p] = "audit"]
            /\ UNCHANGED lresp
       ELSE /\ lpc' = [lpc EXCEPT ![p] = "done"]
            /\ lresp' = [lresp EXCEPT ![p] = ErrorResponse(401, "Invalid passkey")]
    /\ UNCHANGED << loginAttempts, attemptHistory, now, ticks, scenario, lbudget, lreq,
                    loginTables >>

\* The insert into passkey_audit_logs returns, stored or not: its result is
\* not read, access is granted.  (The row's access_timestamp is left out.)
PasskeyAuditDone(p, stored) ==
    /\ lpc[p] = "audit"
    /\ passkey_audit_logs' =
           IF stored
           THEN Append(passkey_audit_logs,
                       [ip_address |-> ForwardedFor(lreq[p]), user_agent |-> "unknown"])
           ELSE passkey_audit_logs
    /\ lresp' = [lresp EXCEPT ![p] = PasskeyGranted]
    /\ lpc' = [lpc EXCEPT ![p] = "done"]
    /\ UNCHANGED << loginAttempts, attemptHistory, now, ticks, scenario, lbudget, lreq, doctors >>

\* hashPassword and the doctors select return: credentials, then status.
DoctorLookupDone(p, answered) ==
    /\ lpc[p] = "lookup"
    /\ LET doctor == IF answered THEN SingleDoctor(doctors, ToLowerCase(lreq[p].email))
                     ELSE NoDoctor
           identifier == LoginIdentifier(lreq[p])
       IN  IF doctor = NoDoctor \/ doctor.password_hash # hashPassword(lreq[p].password)
           THEN /\ lresp' = [lresp EXCEPT ![p] = ErrorResponse(401, "Invalid credentials")]
                /\ UNCHANGED << loginAttempts, attemptHistory >>
           ELSE IF StatusRefusal(doctor) # NoResponse
           THEN /\ lresp' = [lresp EXCEPT ![p] = StatusRefusal(doctor)]
                /\ UNCHANGED << loginAttempts, attemptHistory >>
           ELSE /\ loginAttempts' = MapDelete(loginAttempts, identifier)
                /\ attemptHistory' = MapDelete(attemptHistory, identifier)
                /\ lresp' = [lresp EXCEPT ![p] = DoctorGranted(doctor)]
    /\ lpc' = [lpc EXCEPT ![p] = "done"]
    /\ UNCHANGED << now, ticks, scenario, lbudget, lreq, loginTables >>

\* Time passes: the lockout duration, or a millisecond more.
LoginTick(d) ==
    /\ ticks < MaxTicks
    /\ ticks' = ticks + 1
    /\ now' = now + d
    /\ UNCHANGED << loginAttempts, attemptHistory, scenario, lbudget, lpc, lreq, lresp,
                    loginTables >>

LoginInit ==
    /\ IdleTriage
    /\ IdleTts
    /\ IdleStore
    /\ IdlePortal
    /\ IdleSignup
    /\ loginAttempts = << >>
    /\ attemptHistory = << >>
    /\ now = 0
    /\ ticks = 0
    /\ scenario \in LoginScenarios
    /\ lbudget = scenario.budget
    /\ lpc = [p \in Procs |-> "idle"]
    /\ lreq = [p \in Procs |-> NoLoginRequest]
    /\ lresp = [p \in Procs |-> NoResponse]
    /\ doctors = LoginDoctors
    /\ passkey_audit_logs = << >>

LoginNext ==
    \/ /\ \/ \E p \in scenario.slots, r \in scenario.pool : LoginReceive(p, r)
          \/ \E p \in Procs, found \in BOOLEAN : PasskeyConfigFetched(p, found)
          \/ \E p \in Procs, stored \in BOOLEAN : PasskeyAuditDone(p, stored)
          \/ \E p \in Procs, answered \in BOOLEAN : DoctorLookupDone(p, answered)
          \/ \E d \in {LOCKOUT_DURATION, LOCKOUT_DURATION + 1} : LoginTick(d)
       /\ UNCHANGED << handlerVars, validatorVars, ttsVars, storeVars, portalVars, signupVars >>

SpecLogin == LoginInit /\ [][LoginNext]_vars

(***************************************************************************)
(* text-to-speech: cache lookup, the provider call with its retry loop,    *)
(* the upload.  (enhanceTextForSpeech and the voice configuration shape    *)
(* the body sent to the provider and no state of the handler; they are     *)
(* left out.)                                                              *)
(***************************************************************************)
maxRetries == 3

\* Requests served one after the other.
MaxTtsRequests == 2

TtsRequests ==
    { [text |-> t, language |-> l] : t \in {"", "Rest and drink water."}, l \in {"en", "hi"} }

\* `${language}_${hashHex}.mp3`, hashHex the digest of text + language.
CacheKey(r) == r.language \o "_" \o "sha256:" \o r.text \o r.language \o ".mp3"

\* A backoff growing by a second per retry.
BackoffLinear(count) == 1000 * (count + 1)

\* 1000 * Math.pow(2, retryCount)
Backoff(count) == 1000 * 2^count

TtsRespond(code, body) == [status |-> code, body |-> body]

\* The handler up to the digest and the cache listing.
TtsReceive(r) ==
    /\ tpc \in {"idle", "done"}
    /\ tserved < MaxTtsRequests
    /\ tserved' = tserved + 1
    /\ treq' = r
    /\ retryCount' = 0
    /\ ttsResponse' = "none"
    /\ tattempts' = 0
    /\ twaits' = << >>
    /\ tlog' = << >>
    /\ IF r.text = ""
       THEN tpc' = "done" /\ tresp' = TtsRespond(400, "Text is required")
       ELSE tpc' = "cache" /\ tresp' = NoTtsResponse
    /\ UNCHANGED << tcache, tconfigured >>

\* The cache listing returns: a hit, the client fallback, or the loop starts.
TtsCacheListed(listed) ==
    /\ tpc = "cache"
    /\ IF listed /\ CacheKey(treq) \in tcache
       THEN tpc' = "done" /\ tresp' = TtsRespond(200, "cached")
       ELSE IF ~tconfigured
       THEN tpc' = "done" /\ tresp' = TtsRespond(200, "useClientTTS")
       ELSE tpc' = "fetch" /\ UNCHANGED tresp
    /\ UNCHANGED << treq, retryCount, ttsResponse, tattempts, twaits, tlog, tcache,
                    tconfigured, tserved >>

\* The loop is left: `if (!ttsResponse || !ttsResponse.ok) throw`, else the
\* audio is read and the upload awaited.
TtsLoopExit(response) ==
    IF response # "ok"
    THEN tpc' = "done" /\ tresp' = TtsRespond(500, "TTS generation failed")
    ELSE tpc' = "upload" /\ UNCHANGED tresp

\* The fetch of the provider settles: ok, a non-success status, or a throw.
TtsFetchSettled(outcome) ==
    /\ tpc = "fetch"
    /\ tattempts' = tattempts + 1
    /\ ttsResponse' = IF outcome = "throw" THEN ttsResponse ELSE outcome
    /\ IF outcome = "ok"
       THEN /\ TtsLoopExit("ok")
            /\ UNCHANGED << retryCount, twaits, tlog >>
       ELSE IF outcome = "bad" /\ retryCount >= maxRetries
       THEN /\ retryCount' = retryCount + 1
            /\ TtsLoopExit("bad")
            /\ UNCHANGED << twaits, tlog >>
       ELSE IF outcome = "throw" /\ retryCount = maxRetries
       THEN /\ tpc' = "done"
            /\ tresp' = TtsRespond(500, "fetch failed")
            /\ UNCHANGED << retryCount, twaits, tlog >>
       ELSE /\ tlog' = Append(tlog, << IF outcome = "bad" THEN "failed" ELSE "error",
                                       retryCount + 1 >>)
            /\ twaits' = Append(twaits, Backoff(retryCount))
            /\ tpc' = "wait"
            /\ UNCHANGED << retryCount, tresp >>
    /\ UNCHANGED << treq, tcache, tconfigured, tserved >>

\* The backoff timer fires: retryCount++, then the loop's condition.
TtsWaitDone ==
    /\ tpc = "wait"
    /\ retryCount' = retryCount + 1
    /\ IF retryCount + 1 <= maxRetries
       THEN tpc' = "fetch" /\ UNCHANGED tresp
       ELSE TtsLoopExit(ttsResponse)
    /\ UNCHANGED << treq, ttsResponse, tattempts, twaits, tlog, tcache, tconfigured, tserved >>

\* The upload to the audio-cache bucket returns.
TtsUploaded(stored) ==
    /\ tpc = "upload"
    /\ tpc' = "done"
    /\ IF stored
       THEN tcache' = tcache \cup {CacheKey(treq)} /\ tresp' = TtsRespond(200, "generated")
       ELSE UNCHANGED tcache /\ tresp' = TtsRespond(500, "Failed to cache audio")
    /\ UNCHANGED << treq, retryCount, ttsResponse, tattempts, twaits, tlog, tconfigured, tserved >>

TtsInit ==
    /\ IdleTriage
    /\ IdleLogin
    /\ IdleStore
    /\ IdlePortal
    /\ IdleSignup
    /\ tpc = "idle"
    /\ treq = NoTtsRequest
    /\ tresp = NoTtsResponse
    /\ retryCount = 0
    /\ ttsResponse = "none"
    /\ tattempts = 0
    /\ twaits = << >>
    /\ tlog = << >>
    /\ tcache = {}
    /\ tconfigured \in BOOLEAN
    /\ tserved = 0

\* The steps the handler takes once a request is in.
TtsProgress ==
    /\ \/ \E listed \in BOOLEAN : TtsCacheListed(listed)
       \/ \E outcome \in {"ok", "bad", "throw"} : TtsFetchSettled(outcome)
       \/ TtsWaitDone
       \/ \E stored \in BOOLEAN : TtsUploaded(stored)
    /\ UNCHANGED << handlerVars, validatorVars, loginVars, storeVars, portalVars, signupVars >>

TtsNext ==
    \/ /\ \E r \in TtsRequests : TtsReceive(r)
       /\ UNCHANGED << handlerVars, validatorVars, loginVars, storeVars, portalVars, signupVars >>
    \/ TtsProgress

\* Every awaited call settles and every timer fires.
SpecTts == TtsInit /\ [][TtsNext]_vars /\ WF_vars(TtsProgress)

(***************************************************************************)
(* useDoctorStore with the pages that call it: DoctorLogin (login),        *)
(* ProtectedRoute and DoctorDashboard (isSessionValid, logout).            *)
(***************************************************************************)
\* Bounds: logins, and logouts started.
MaxLogins == 2
MaxLogouts == 3

\* The state of doctor-login other than the clock.
loginState == << loginAttempts, attemptHistory, scenario, lbudget, lpc, lreq, lresp,
                 doctors, passkey_audit_logs >>

\* The successful responses of doctor-login the login page receives.
GrantedResponses == {DoctorGranted(LoginDoctors[1]), PasskeyGranted}

\* The argument DoctorLogin passes to login(), with login()'s loginTime.
SessionOf(data, t) ==
    IF data.role = "emergency_admin"
    THEN [id |-> "emergency", email |-> "emergency@system", fullName |-> "Emergency Admin",
          role |-> data.role, status |-> "approved",
          sessionExpiry |-> data.sessionExpiry, loginTime |-> t]
    ELSE [id |-> data.doctor.id, email |-> data.doctor.email,
          fullName |-> data.doctor.full_name, role |-> data.role,
          status |-> data.doctor.status,
          sessionExpiry |-> data.sessionExpiry, loginTime |-> t]

\* A validity test that looks at the stored session only.
IsSessionValidStoredOnly(s, t) == s # NoSession

\* isSessionValid()'s return value at time t.
IsSessionValid(s, t) ==
    IF s = NoSession THEN FALSE
    ELSE IF t - s.loginTime > s.sessionExpiry THEN FALSE
    ELSE TRUE

\* isSessionValid() calls logout(): a session is stored and has expired.
ExpiryLogout(s, t) == s # NoSession /\ t - s.loginTime > s.sessionExpiry

\* logout() called k times in a row: with a session stored each call reads it
\* and awaits its delete; without one, set({ session: null }) at once.
LogoutStarted(k) ==
    IF k > 0 /\ session # NoSession
    THEN /\ pendingLogouts' = pendingLogouts \cup
                { [n |-> logouts + i, id |-> session.id, epoch |-> logins] : i \in 1..k }
         /\ logouts' = logouts + k
         /\ UNCHANGED session
    ELSE UNCHANGED << session, pendingLogouts, logouts >>

\* login(session), then navigate('/doctor/dashboard').
StoreLogin(data) ==
    /\ logins < MaxLogins
    /\ logins' = logins + 1
    /\ session' = SessionOf(data, now)
    /\ pendingSaves' = pendingSaves \cup {SessionOf(data, now)}
    /\ view' = "route"
    /\ UNCHANGED << doctor_sessions, pendingLogouts, logouts, now, ticks >>

\* The upsert of saveSession returns.
StoreSaved(s, stored) ==
    /\ s \in pendingSaves
    /\ pendingSaves' = pendingSaves \ {s}
    /\ doctor_sessions' =
           IF stored
           THEN {r \in doctor_sessions : r.id # s.id}
                    \cup {[id |-> s.id, role |-> s.role, login_time |-> s.loginTime]}
           ELSE doctor_sessions
    /\ UNCHANGED << session, pendingLogouts, logins, logouts, view, now, ticks >>

\* ProtectedRoute renders: the dashboard when isSessionValid(), else the
\* redirect to /doctor/access-denied.
RouteRender ==
    /\ view \in {"route", "dashboard"}
    /\ logouts + 1 <= MaxLogouts
    /\ view' = IF IsSessionValid(session, now) THEN "dashboard" ELSE "access-denied"
    /\ LogoutStarted(IF ExpiryLogout(session, now) THEN 1 ELSE 0)
    /\ UNCHANGED << doctor_sessions, pendingSaves, logins, now, ticks >>

\* DoctorDashboard's effect on mount: back to the login page when the
\* session is not valid.
DashboardMounted ==
    /\ view = "dashboard"
    /\ logouts + 1 <= MaxLogouts
    /\ ~IsSessionValid(session, now)
    /\ view' = "login"
    /\ LogoutStarted(IF ExpiryLogout(session, now) THEN 1 ELSE 0)
    /\ UNCHANGED << doctor_sessions, pendingSaves, logins, now, ticks >>

\* The auto-logout timer fires: isSessionValid(), then logout() and the
\* login page when it is false.
DashboardTimer ==
    /\ view = "dashboard"
    /\ logouts + 2 <= MaxLogouts
    /\ ~IsSessionValid(session, now)
    /\ view' = "login"
    /\ LogoutStarted(IF ExpiryLogout(session, now) THEN 2 ELSE 0)
    /\ UNCHANGED << doctor_sessions, pendingSaves, logins, now, ticks >>

\* handleLogout: logout(), then the login page.
HandleLogout ==
    /\ view = "dashboard"
    /\ logouts + 1 <= MaxLogouts
    /\ view' = "login"
    /\ LogoutStarted(1)
    /\ UNCHANGED << doctor_sessions, pendingSaves, logins, now, ticks >>

\* The delete awaited by a logout returns: set({ session: null }).
StoreDeleteResolved(l, deleted) ==
    /\ l \in pendingLogouts
    /\ pendingLogouts' = pendingLogouts \ {l}
    /\ doctor_sessions' =
           IF deleted THEN {r \in doctor_sessions : r.id # l.id} ELSE doctor_sessions
    /\ session' = NoSession
    /\ UNCHANGED << pendingSaves, logins, logouts, view, now, ticks >>

\* Time passes: a millisecond, or the lifetime of the stored session.
StoreTick(d) ==
    /\ ticks < MaxTicks
    /\ ticks' = ticks + 1
    /\ now' = now + d
    /\ UNCHANGED storeVars

StoreInit ==
    /\ IdleTriage
    /\ IdleLogin
    /\ IdleTts
    /\ IdleStore
    /\ IdlePortal
    /\ IdleSignup

StoreNext ==
    \/ /\ \/ \E data \in GrantedResponses : StoreLogin(data)
          \/ \E s \in pendingSaves, stored \in BOOLEAN : StoreSaved(s, stored)
          \/ RouteRender
          \/ DashboardMounted
          \/ DashboardTimer
          \/ HandleLogout
          \/ \E l \in pendingLogouts, deleted \in BOOLEAN : StoreDeleteResolved(l, deleted)
          \/ \E d \in {1} \cup {session.sessionExpiry : x \in {session} \ {NoSession}} :
                 StoreTick(d)
       /\ UNCHANGED << handlerVars, validatorVars, loginState, ttsVars, portalVars, signupVars >>

SpecStore == StoreInit /\ [][StoreNext]_vars

(***************************************************************************)
(* PatientPortal: the two modes, their inputs, the two analysis handlers   *)
(* and the result views.                                                   *)
(***************************************************************************)
\* What the patient types or uploads.
SymptomTexts == {"", "  ", "fever", " chest pain "}
MedicineTexts == {"", " ", "aspirin", "Insulin "}
PrescriptionTexts == {"", "Rx amoxicillin"}

\* The form is rendered: neither result view replaces it.
FormShown == symptomResult = NoResult /\ medicationResult = NoResult

\* onChange of the symptom textarea.
SetSymptoms(text) ==
    /\ FormShown /\ mode = "symptom"
    /\ symptoms' = text
    /\ UNCHANGED << mode, medicineName, prescriptionText, isAnalyzing, symptomResult,
                    medicationResult, invocations >>

\* PrescriptionUpload's onExtractedText.
SetPrescriptionText(text) ==
    /\ FormShown /\ mode = "symptom"
    /\ prescriptionText' = text
    /\ UNCHANGED << mode, symptoms, medicineName, isAnalyzing, symptomResult,
                    medicationResult, invocations >>

\* onChange of the medicine input.
SetMedicineName(text) ==
    /\ FormShown /\ mode = "medication"
    /\ medicineName' = text
    /\ UNCHANGED << mode, symptoms, prescriptionText, isAnalyzing, symptomResult,
                    medicationResult, invocations >>

\* handleSymptomAnalyze up to the awaited invoke; its button is disabled
\* while isAnalyzing.
HandleSymptomAnalyze ==
    /\ FormShown /\ mode = "symptom" /\ ~isAnalyzing
    /\ ~(Trim(symptoms) = "" /\ Trim(prescriptionText) = "")
    /\ isAnalyzing' = TRUE
    /\ invocations' = invocations \cup
           {[fn |-> "analyze-symptoms",
             input |-> Trim(symptoms) \o "|" \o Trim(prescriptionText)]}
    /\ UNCHANGED << mode, symptoms, medicineName, prescriptionText, symptomResult,
                    medicationResult >>

\* handleMedicationInfo up to the awaited invoke.
HandleMedicationInfo ==
    /\ FormShown /\ mode = "medication" /\ ~isAnalyzing
    /\ Trim(medicineName) # ""
    /\ isAnalyzing' = TRUE
    /\ invocations' = invocations \cup
           {[fn |-> "medication-info", input |-> Trim(medicineName)]}
    /\ UNCHANGED << mode, symptoms, medicineName, prescriptionText, symptomResult,
                    medicationResult >>

\* The invoke returns, with data or without: the handler's result setter,
\* then finally setIsAnalyzing(false).
InvokeReturned(c, withData) ==
    /\ c \in invocations
    /\ invocations' = invocations \ {c}
    /\ isAnalyzing' = FALSE
    /\ symptomResult' =
           IF withData /\ c.fn = "analyze-symptoms" THEN c ELSE symptomResult
    /\ medicationResult' =
           IF withData /\ c.fn = "medication-info" THEN c ELSE medicationResult
    /\ UNCHANGED << mode, symptoms, medicineName, prescriptionText >>

\* handleNewAnalysis, the button of the result views.
HandleNewAnalysis ==
    /\ ~FormShown
    /\ symptomResult' = NoResult
    /\ medicationResult' = NoResult
    /\ symptoms' = ""
    /\ medicineName' = ""
    /\ prescriptionText' = ""
    /\ UNCHANGED << mode, isAnalyzing, invocations >>

\* handleModeChange, the mode buttons of the form (enabled while analyzing).
HandleModeChange(newMode) ==
    /\ FormShown
    /\ mode' = newMode
    /\ symptoms' = ""
    /\ medicineName' = ""
    /\ prescriptionText' = ""
    /\ symptomResult' = NoResult
    /\ medicationResult' = NoResult
    /\ UNCHANGED << isAnalyzing, invocations >>

PortalInit ==
    /\ IdleTriage
    /\ IdleLogin
    /\ IdleTts
    /\ IdleStore
    /\ IdlePortal
    /\ IdleSignup

PortalNext ==
    \/ /\ \/ \E text \in SymptomTexts : SetSymptoms(text)
          \/ \E text \in PrescriptionTexts : SetPrescriptionText(text)
          \/ \E text \in MedicineTexts : SetMedicineName(text)
          \/ HandleSymptomAnalyze
          \/ HandleMedicationInfo
          \/ \E c \in invocations, withData \in BOOLEAN : InvokeReturned(c, withData)
          \/ HandleNewAnalysis
          \/ \E newMode \in {"symptom", "medication"} : HandleModeChange(newMode)
       /\ UNCHANGED << handlerVars, validatorVars, loginVars, ttsVars, storeVars, signupVars >>

SpecPortal == PortalInit /\ [][PortalNext]_vars

(***************************************************************************)
(* doctor-signup: validation, the existing-email check and the insert.     *)
(* Two requests may be in flight at once.                                  *)
(***************************************************************************)
ALLOWED_DOMAINS ==
    << "hospital.com", "clinic.org", "healthcare.in", "med.edu", "aiims.edu", "medanta.org",
       "apollo.com", "fortis.in" >>

BLOCKED_DOMAINS ==
    << "gmail.com", "yahoo.com", "outlook.com", "hotmail.com", "live.com", "protonmail.com" >>

\* Signup requests received in a behaviour.
MaxSignups == 3

SignupRequests ==
    { [email |-> "Ann@Clinic.org", password |-> "s3cret-pw", fullName |-> "Ann"],
      [email |-> "ann@clinic.org", password |-> "other-pw1", fullName |-> "Ann B"],
      [email |-> "dee@city.hospital.com", password |-> "long-enough", fullName |-> "Dee"],
      [email |-> "bob@gmail.com", password |-> "long-enough", fullName |-> "Bob"],
      [email |-> "eve@else.net", password |-> "long-enough", fullName |-> "Eve"],
      [email |-> "no at@clinic.org", password |-> "long-enough", fullName |-> "Nat"],
      [email |-> "cy@med.edu", password |-> "short", fullName |-> "Cy"],
      [email |-> "fay@med.edu", password |-> "long-enough", fullName |-> ""] }

\* The positions of the character c in s.
PositionsOf(s, c) == {i \in 1..Len(s) : CharAt(s, i) = c}

\* /^[^\s@]+@[^\s@]+\.[^\s@]+$/.test(email): no white space, one "@" with
\* something before it, and after it a "." with something on both sides.
EmailFormatOk(email) ==
    LET ats == PositionsOf(email, "@")
    IN  /\ PositionsOf(email, " ") = {}
        /\ Cardinality(ats) = 1
        /\ LET at == CHOOSE i \in ats : TRUE
           IN  /\ at > 1
               /\ \E dot \in PositionsOf(email, ".") : dot > at + 1 /\ dot < Len(email)

\* email.split('@')[1].toLowerCase(), for an email with one "@".
DomainOf(email) ==
    LET at == CHOOSE i \in PositionsOf(email, "@") : TRUE
    IN  ToLowerCase(SubSeq(email, at + 1, Len(email)))

\* domain.endsWith(suffix)
EndsWith(s, suffix) ==
    Len(s) >= Len(suffix) /\ SubSeq(s, Len(s) - Len(suffix) + 1, Len(s)) = suffix

\* The 400 answer of the validation, "" when the request passes it.
SignupRefusal(r) ==
    IF r.email = "" \/ r.password = "" \/ r.fullName = ""
    THEN "All fields are required"
    ELSE IF ~EmailFormatOk(r.email)
    THEN "Invalid email format"
    ELSE IF \E i \in 1..Len(BLOCKED_DOMAINS) : BLOCKED_DOMAINS[i] = DomainOf(r.email)
    THEN "Personal email domains not allowed. Please use institutional email."
    ELSE IF ~\E i \in 1..Len(ALLOWED_DOMAINS) : EndsWith(DomainOf(r.email), ALLOWED_DOMAINS[i])
    THEN "Please use an institutional email address from a recognized healthcare organization."
    ELSE IF Len(r.password) < 8
    THEN "Password must be at least 8 characters long"
    ELSE ""

SignupError(code, text) == [NoSignupResponse EXCEPT !.status = code, !.error = text]

\* The state of doctor-login other than the doctors table.
loginRest == << loginAttempts, attemptHistory, now, ticks, scenario, lbudget, lpc, lreq, lresp,
                passkey_audit_logs >>

\* The handler up to the awaited select on doctors.
SignupReceive(p, r) ==
    /\ spc[p] \in {"idle", "done"}
    /\ signups < MaxSignups
    /\ signups' = signups + 1
    /\ sreq' = [sreq EXCEPT ![p] = r]
    /\ IF SignupRefusal(r) # ""
       THEN /\ spc' = [spc EXCEPT ![p] = "done"]
            /\ sresp' = [sresp EXCEPT ![p] = SignupError(400, SignupRefusal(r))]
       ELSE /\ spc' = [spc EXCEPT ![p] = "check"]
            /\ sresp' = [sresp EXCEPT ![p] = NoSignupResponse]
    /\ UNCHANGED doctors

\* The select of the existing account returns (single(): data only when
\* exactly one row matches).
SignupChecked(p, answered) ==
    /\ spc[p] = "check"
    /\ LET existingDoctor ==
               IF answered THEN SingleDoctor(doctors, ToLowerCase(sreq[p].email)) ELSE NoDoctor
       IN  IF existingDoctor # NoDoctor
           THEN /\ spc' = [spc EXCEPT ![p] = "done"]
                /\ sresp' = [sresp EXCEPT ![p] = SignupError(400, "Email already registered")]
           ELSE /\ spc' = [spc EXCEPT ![p] = "insert"]
                /\ UNCHANGED sresp
    /\ UNCHANGED << sreq, signups, doctors >>

\* hashPassword and the insert return: the account is stored, or the insert's
\* error is thrown to the outer catch.
SignupInserted(p, stored) ==
    /\ spc[p] = "insert"
    /\ spc' = [spc EXCEPT ![p] = "done"]
    /\ IF stored
       THEN /\ doctors' = Append(doctors,
                   [id |-> "n" \o ToString(Len(doctors) + 1),
                    email |-> ToLowerCase(sreq[p].email),
                    password_hash |-> hashPassword(sreq[p].password),
                    full_name |-> sreq[p].fullName,
                    status |-> "pending"])
            /\ sresp' = [sresp EXCEPT ![p] =
                            [NoSignupResponse EXCEPT !.status = 200, !.success = TRUE,
                                                     !.accountStatus = "pending"]]
       ELSE /\ UNCHANGED doctors
            /\ sresp' = [sresp EXCEPT ![p] = SignupError(500, "Signup failed")]
    /\ UNCHANGED << sreq, signups >>

SignupInit ==
    /\ IdleTriage
    /\ IdleLogin
    /\ IdleTts
    /\ IdleStore
    /\ IdlePortal
    /\ IdleSignup

SignupNext ==
    \/ /\ \/ \E p \in Procs, r \in SignupRequests : SignupReceive(p, r)
          \/ \E p \in Procs, answered \in BOOLEAN : SignupChecked(p, answered)
          \/ \E p \in Procs, stored \in BOOLEAN : SignupInserted(p, stored)
       /\ UNCHANGED << handlerVars, validatorVars, loginRest, ttsVars, storeVars, portalVars >>

SpecSignup == SignupInit /\ [][SignupNext]_vars

(***************************************************************************)
(* Properties.                                                             *)
(***************************************************************************)
AnalyzeDone == fn = "analyze-symptoms" /\ pc = "done"
MedicationDone == fn = "medication-info" /\ pc = "done"
IsEmpty(text) == Len(Trim(text)) = 0
LastQuery == patient_queries[Len(patient_queries)]

\* C1: whenever the keyword of some safety rule occurs (in any case) in the
\* request's symptom and prescription text, the answer is the override
\* result (CRITICAL, safe_guidance null, is_override true) and the model was
\* not called.
C1_KeywordForcesOverride ==
    (AnalyzeDone /\ \E i \in 1..Len(safety_rules) : RuleMatches(safety_rules[i], req))
    => /\ status = 200
       /\ analysisResult.severity = JStr("CRITICAL")
       /\ analysisResult.safe_guidance = JNull
       /\ analysisResult.is_override = JBool("true")
       /\ modelCalls = 0

\* C2: a result of severity CRITICAL, on the override path or the model path,
\* carries the fixed emergency recommendation and a null safe_guidance.
C2_CriticalIsEmergency ==
    (fn = "analyze-symptoms" /\ analysisResult.severity = JStr("CRITICAL"))
    => /\ analysisResult.recommendation = JStr(EmergencyRecommendation)
       /\ analysisResult.safe_guidance = JNull

\* The model answered "critical", "rest at home" and a home remedy, and the
\* result was returned.
C2_Witness ==
    /\ AnalyzeDone /\ status = 200
    /\ aiContent = <<Fence, Obj(ObjCritical), Fence>>
    /\ analysisResult.severity = JStr("CRITICAL")

\* C3: a request is rejected as invalid input only when both its symptom
\* text and its prescription text are empty.
C3_RejectedOnlyWhenBothEmpty ==
    (AnalyzeDone /\ status = 400)
    => (IsEmpty(req.symptoms) /\ IsEmpty(req.prescriptionText))

WellFormedTriage(r) ==
    /\ r.disease_category.t = "str" /\ r.disease_category.s # ""
    /\ r.severity.t = "str" /\ r.severity.s \in validSeverities
    /\ r.recommendation.t = "str" /\ r.recommendation.s # ""
    /\ r.reason.t \in {"str", "absent"}
    /\ r.safe_guidance.t \in {"str", "null", "absent"}
    /\ r.is_override.t \in {"bool", "absent"}

ValidatedShape(r) ==
    /\ r.severity.t = "str" /\ r.severity.s \in validSeverities
    /\ ~Falsy(r.disease_category)
    /\ ~Falsy(r.recommendation)
    /\ Falsy(r.safe_guidance) \/ r.safe_guidance.t = "str"

LacksValue(v) == v = Absent \/ v = JNull \/ v = JStr("")

\* Every JSON object of the content lacks a non-empty disease_category,
\* severity or recommendation (or the content holds no object).
NoCompleteObject(content) ==
    \A i \in 1..Len(content) :
        content[i].k = "obj" => \/ LacksValue(content[i].v.disease_category)
                                \/ LacksValue(content[i].v.severity)
                                \/ LacksValue(content[i].v.recommendation)

\* C6: a model output with no parseable JSON object, or whose object lacks a
\* non-empty disease_category, severity or recommendation, gives exactly the
\* fixed fallback object.
C6_MalformedGivesFallback ==
    /\ (fn = "analyze-symptoms" /\ aiOutcome = "ok" /\ NoCompleteObject(aiContent))
       => analysisResult = TriageFallback
    /\ (vphase = "out" /\ NoCompleteObject(vin)) => vout = TriageFallback

\* The model's object had no recommendation and the fallback was returned.
C6_Witness ==
    /\ AnalyzeDone /\ status = 200
    /\ aiContent = <<Obj(ObjNoRecommendation)>>
    /\ analysisResult = TriageFallback

HasProhibitedTerm(text) ==
    \E i \in 1..Len(PROHIBITED_MEDICATION_TYPES) :
        Includes(ToLowerCase(text), PROHIBITED_MEDICATION_TYPES[i])

\* The safe_guidance the model wrote, when the validated result is built from its object.
ModelGuidance(content) == JsonParse(ExtractObject(StripFence(content))).safe_guidance

\* C7: the safe_guidance of a validated result holds no occurrence, in any
\* case, of a prohibited term, and where the model's text held one the
\* neutral phrase stands in the result.
C7_NoProhibitedTermLeft ==
    /\ (vphase = "out" /\ vout.safe_guidance.t = "str")
       => /\ ~HasProhibitedTerm(vout.safe_guidance.s)
          /\ (vout # TriageFallback /\ HasProhibitedTerm(ModelGuidance(vin).s))
             => Includes(vout.safe_guidance.s, NeutralPhrase)
    /\ (fn = "analyze-symptoms" /\ analysisResult.safe_guidance.t = "str")
       => ~HasProhibitedTerm(analysisResult.safe_guidance.s)

\* Two overlapping terms in the model's text: 'prescription drug' is replaced,
\* and what is left of 'antiviral prescription' is no term.
C7_Witness ==
    /\ vphase = "out"
    /\ ModelGuidance(vin) = JStr("antiviral prescription drug")
    /\ vout.safe_guidance = JStr("antiviral medication (consult doctor)")

\* The TriageResult read back from a patient_queries row: a field the row
\* does not hold is absent.
ReadBack(row) ==
    [ disease_category |-> row.disease_category, severity |-> row.severity,
      recommendation |-> row.recommendation, reason |-> row.reason,
      safe_guidance |-> Absent, is_override |-> Absent ]

Persisted == AnalyzeDone /\ status = 200 /\ ~insertFailed

C9_MedicationAppendsOneRecord ==
    (MedicationDone /\ status = 200) => inserts = 1

\* C9 (amended): a medication-info request issues no insert and leaves
\* patient_queries as it was.
C9_MedicationAppendsNothing ==
    [][fn' = "medication-info" => (patient_queries' = patient_queries /\ inserts' = 0)]_vars

\* A medication-info request returned after an analyze-symptoms request had
\* stored its row: the table still holds that one row.
C9_Witness ==
    /\ MedicationDone /\ status = 200
    /\ medicationInfo.dosage_info = JStr(SanitizedDosage)
    /\ Len(patient_queries) = 1
    /\ inserts = 0

\* C10: when the insert into patient_queries fails, the result is returned
\* with success status as built, and the failure is logged.
C10_InsertFailureLogged ==
    [][(pc = "as_insert" /\ insertFailed')
       => (status' = 200 /\ analysisResult' = analysisResult /\ log' # log)]_vars

\* The result a request is to return once its rule match or its model answer
\* is known: the override result, or the validated model output or fallback.
FinalResult ==
    IF matchedRule # NoRule THEN OverrideResult(matchedRule, guidanceData)
    ELSE TriageOutcome[aiContent].result

C12_InvalidInputFailsFast ==
    /\ []((pc = "done" /\ status = 400)
           => /\ error # ""
              /\ analysisResult = NoFields /\ medicationInfo = NoMedFields
              /\ matchedRule = NoRule /\ modelCalls = 0 /\ aiOutcome = "" /\ inserts = 0
              /\ IF fn = "analyze-symptoms" THEN IsEmpty(req.symptoms) ELSE IsEmpty(req.medicineName))
    /\ [][status' = 400 => (pc \in {"idle", "done"} /\ patient_queries' = patient_queries)]_vars

\* A medication-info request with a blank medicine name was rejected after an
\* earlier request had stored its row.
C12_Witness ==
    /\ MedicationDone /\ status = 400
    /\ req.medicineName = "  "
    /\ Len(patient_queries) = 1

\* The object the validator reads in a message content.
ParsedOf(content) == JsonParse(ExtractObject(StripFence(content)))

\* The content holds one object with the three required fields, a severity
\* text and a safe_guidance that is a text or missing.
ValidatableObject(content) ==
    /\ JsonParses(ExtractObject(StripFence(content)))
    /\ ~LacksValue(ParsedOf(content).disease_category)
    /\ ~LacksValue(ParsedOf(content).severity)
    /\ ~LacksValue(ParsedOf(content).recommendation)
    /\ ParsedOf(content).severity.t = "str"
    /\ ParsedOf(content).safe_guidance.t \in {"str", "null", "absent"}

\* The result's severity is one of the four; it is the model's severity in
\* upper case when that is one of the four, and otherwise MODERATE with the
\* model's disease_category, recommendation and reason kept.
SeverityNormalized(content, r) ==
    /\ r.severity \in {JStr("LOW"), JStr("MODERATE"), JStr("HIGH"), JStr("CRITICAL")}
    /\ ValidatableObject(content)
       => LET o == ParsedOf(content)
              up == ToUpperCase(o.severity.s)
          IN  IF up \in {"LOW", "MODERATE", "HIGH", "CRITICAL"}
              THEN r.severity = JStr(up)
              ELSE /\ r.severity = JStr("MODERATE")
                   /\ r.disease_category = o.disease_category
                   /\ r.recommendation = o.recommendation
                   /\ r.reason = o.reason

C14_FirstMatchingRuleWins ==
    (fn = "analyze-symptoms" /\ matchedRule # NoRule)
    => \E i \in 1..Len(safety_rules) :
         /\ RuleMatches(safety_rules[i], req)
         /\ \A j \in 1..(i - 1) : ~RuleMatches(safety_rules[j], req)
         /\ matchedRule = safety_rules[i]
         /\ pc \in {"as_insert", "done"}
            => analysisResult.disease_category = JStr(safety_rules[i].category)

\* Both rules match; the rule of severity LOW stands first and gives the category.
C14_Witness ==
    /\ AnalyzeDone /\ status = 200
    /\ req.symptoms = "chest pain after STROKE"
    /\ safety_rules = <<RuleStroke, RuleChest>>
    /\ analysisResult.disease_category = JStr("Neurological Emergency")

Languages == {"en", "hi", "te", "kn"}

MedValidatable(content) ==
    /\ JsonParses(ExtractObject(StripFence(content)))
    /\ \A f \in FieldNames : ~LacksValue(ParsedOf(content)[f])
    /\ ParsedOf(content).dosage_info.t = "str"
    /\ ParsedOf(content).disclaimer.t = "str"

\* The returned dosage_info matches no number followed by a unit; it is the
\* fixed text where the model's matched and the model's own where it did not.
DosageSafe(content, info) ==
    /\ info.dosage_info.t = "str"
    /\ ~MatchesDosage(info.dosage_info.s)
    /\ MedValidatable(content)
       => IF MatchesDosage(ParsedOf(content).dosage_info.s)
          THEN info.dosage_info = JStr(SanitizedDosage)
          ELSE info.dosage_info = ParsedOf(content).dosage_info

\* C16: the dosage_info of a returned MedicationInfo, validated or fallback,
\* matches no number followed by mg, ml, tablet(s), pill(s), time(s) or
\* hour(s): a model dosage_info that matches is replaced as a whole by the
\* fixed text, one that does not match is returned unchanged.
C16_DosageSanitized ==
    /\ (MedicationDone /\ status = 200) => DosageSafe(aiContent, medicationInfo)
    /\ vphase = "mout" => DosageSafe(vin, vout)

\* 'take 500mg twice daily' inside a code fence came back as the fixed text.
C16_Witness ==
    /\ vphase = "mout"
    /\ vin = <<MedFence, MedObj(MedDosage), MedFence>>
    /\ vout.dosage_info = JStr(SanitizedDosage)
    /\ vout.overview = MedDosage.overview

HasBothPhrases(text) ==
    /\ Includes(ToLowerCase(text), "educational")
    /\ Includes(ToLowerCase(text), "not replace")

DisclaimerEnforced(content, info) ==
    /\ info.disclaimer.t = "str"
    /\ HasBothPhrases(info.disclaimer.s)
    /\ MedValidatable(content)
       => IF HasBothPhrases(ParsedOf(content).disclaimer.s)
          THEN info.disclaimer = ParsedOf(content).disclaimer
          ELSE info.disclaimer = JStr(CanonicalDisclaimer)

\* C17: the disclaimer of a returned MedicationInfo, validated or fallback,
\* contains 'educational' and 'not replace' in some case: a model disclaimer
\* missing either is overwritten with the canonical text, one holding both is
\* returned unchanged.
C17_DisclaimerEnforced ==
    /\ (MedicationDone /\ status = 200) => DisclaimerEnforced(aiContent, medicationInfo)
    /\ vphase = "mout" => DisclaimerEnforced(vin, vout)

\* A disclaimer holding 'Educational' alone was overwritten.
C17_Witness ==
    /\ vphase = "mout"
    /\ MedValidatable(vin)
    /\ ParsedOf(vin).disclaimer = JStr("Educational only")
    /\ vout.disclaimer = JStr(CanonicalDisclaimer)

\* Some required field of the content's object is missing, null or empty.
LacksRequiredField(content) ==
    /\ JsonParses(ExtractObject(StripFence(content)))
    /\ \E f \in FieldNames : LacksValue(ParsedOf(content)[f])

\* C18: when one of the eight required fields is missing or empty in the
\* model output, the response is the whole fixed fallback object with the
\* requested medicine name.
C18_MissingFieldFullFallback ==
    /\ (MedicationDone /\ status = 200 /\ LacksRequiredField(aiContent))
       => medicationInfo = MedicationFallback(req.medicineName)
    /\ (vphase = "mout" /\ LacksRequiredField(vin))
       => vout = MedicationFallback(req.medicineName)

\* The object lacked side_effects only; nothing else of it was returned.
C18_Witness ==
    /\ vphase = "mout"
    /\ vin = <<MedObj([MedDosage EXCEPT !.side_effects = Absent])>>
    /\ req.medicineName = " Amoxil "
    /\ vout.medicine_name = JStr(" Amoxil ")
    /\ vout.overview # MedDosage.overview

\* A further pass of the validation over a result leaves it as it is.
Revalidated(r) ==
    /\ ValidateSteps(r) = r
    /\ ValidateTriage(<<Obj(r)>>) = r
    /\ r.severity = JStr("CRITICAL")
       => /\ ValidateSteps(r).recommendation = JStr(EmergencyRecommendation)
          /\ ValidateSteps(r).safe_guidance = JNull

\* C19: the validation steps applied to a result that went through them
\* (validated model output, fallback or override result) return the same
\* result; a CRITICAL result keeps the emergency recommendation and a null
\* safe_guidance.
C19_ValidationIdempotent ==
    /\ vphase = "out" => Revalidated(vout)
    /\ (AnalyzeDone /\ status = 200) => Revalidated(analysisResult)

\* A guidance naming two prohibited categories was rewritten by the first
\* pass and is left alone by the second.
C19_Witness ==
    /\ vphase = "out"
    /\ ModelGuidance(vin) = JStr("SteroidINJECTION")
    /\ vout.safe_guidance = JStr("medication (consult doctor)medication (consult doctor)")
    /\ ValidateSteps(vout) = vout

\* The model's object after severity normalization and critical enforcement,
\* before the medication filter.
BeforeFilter(content) == EnforceCritical(NormalizeSeverity(ParsedOf(content)))

\* The filter changed nothing but a safe_guidance that names a prohibited term.
OnlyGuidanceRewritten(content, r) ==
    ValidatableObject(content)
    => /\ r.disease_category = BeforeFilter(content).disease_category
       /\ r.severity = BeforeFilter(content).severity
       /\ r.recommendation = BeforeFilter(content).recommendation
       /\ r.reason = BeforeFilter(content).reason
       /\ r.is_override = BeforeFilter(content).is_override
       /\ (BeforeFilter(content).safe_guidance.t # "str"
            \/ ~HasProhibitedTerm(BeforeFilter(content).safe_guidance.s))
          => r.safe_guidance = BeforeFilter(content).safe_guidance

\* C20: the medication filter rewrites safe_guidance only: disease_category,
\* severity, recommendation and reason are what they were before the filter,
\* also where they name a prohibited term, and a safe_guidance naming none is
\* returned unchanged.
C20_FilterTouchesGuidanceOnly ==
    /\ vphase = "out" => OnlyGuidanceRewritten(vin, vout)
    /\ (AnalyzeDone /\ status = 200 /\ aiOutcome = "ok")
       => OnlyGuidanceRewritten(aiContent, analysisResult)

\* Category, recommendation and reason name prohibited terms and came back as written.
C20_Witness ==
    /\ vphase = "out"
    /\ vin = <<Obj(ObjTermsElsewhere)>>
    /\ vout.reason = JStr("Insulin injection site")
    /\ vout.recommendation = JStr("Stop the antibiotic")
    /\ vout.safe_guidance = JStr("Drink water")

(***************************************************************************)
(* Properties of doctor-login.                                             *)
(***************************************************************************)
\* The stored accounts the request names whose password hash matches.
MatchingAccounts(r) ==
    {i \in 1..Len(doctors) : /\ doctors[i].email = ToLowerCase(r.email)
                             /\ doctors[i].password_hash = hashPassword(r.password)}

\* The slot's handler has answered success on the account path.
DoctorLoggedIn(p) == lpc[p] = "done" /\ lresp[p].success /\ lresp[p].role = "doctor"

\* C21: a doctor-login request returns success only if an account exists for
\* the email, the password hash matches and the account's status is approved.
C21_SuccessOnlyIfApproved ==
    \A p \in Procs :
        DoctorLoggedIn(p) =>
            \E i \in MatchingAccounts(lreq[p]) : doctors[i].status = "approved"

\* The slot's handler moves from the awaited audit insert to its response.
AuditReturns(p) == lpc[p] = "audit" /\ lpc'[p] = "done"

\* C22: every emergency-passkey login that is granted has an audit record in
\* passkey_audit_logs, written before the success response.
C22_GrantedIsAudited ==
    [][\A p \in Procs :
          (AuditReturns(p) /\ lresp'[p].message = "Emergency access granted")
              => Len(passkey_audit_logs') = Len(passkey_audit_logs) + 1]_vars

\* The identifiers checkRateLimit has seen.
Identifiers == DOMAIN loginAttempts \cup DOMAIN attemptHistory

\* A request is received on the slot in this step and its handler leaves the
\* slot in a new state.
Received(p) ==
    /\ lbudget' < lbudget
    /\ << lpc'[p], lreq'[p], lresp'[p] >> # << lpc[p], lreq[p], lresp[p] >>

\* The run of the identifier has used up its attempts and the time t is
\* within the lockout duration of the last permitted one.
RunExhausted(identifier, t) ==
    LET e == HistoryOf(attemptHistory, identifier)
    IN  e.permits >= MAX_LOGIN_ATTEMPTS /\ t - e.last <= LOCKOUT_DURATION

\* The slot's handler is past the rate limit check, reading credentials.
CheckingCredentials(p) == lpc[p] \in {"config", "audit", "lookup"}

\* C23: for any identifier at most MAX_LOGIN_ATTEMPTS attempts are let through
\* in a run of attempts each within 15 minutes of the previous permitted one,
\* the stored count stays between 1 and 5, and every further attempt of the
\* run is answered 429 before any credential is checked, whatever the
\* interleaving of the requests.
C23_AtMostFivePerRun ==
    /\ [](\A identifier \in Identifiers :
             /\ HistoryOf(attemptHistory, identifier).permits <= MAX_LOGIN_ATTEMPTS
             /\ identifier \in DOMAIN loginAttempts =>
                    loginAttempts[identifier].count \in 1..MAX_LOGIN_ATTEMPTS)
    /\ [][\A p \in Procs :
             (/\ Received(p)
              /\ RateLimited(lreq'[p])
              /\ RunExhausted(LoginIdentifier(lreq'[p]), now))
                 => /\ lresp'[p].status = 429
                    /\ lpc'[p] = "done"
                    /\ loginAttempts' = loginAttempts]_vars

C23_Witness ==
    \E p, q \in Procs :
        /\ lpc[p] = "done" /\ lresp[p].status = 429
        /\ HistoryOf(attemptHistory, LoginIdentifier(lreq[p])).permits = MAX_LOGIN_ATTEMPTS
        /\ loginAttempts[LoginIdentifier(lreq[p])].count = MAX_LOGIN_ATTEMPTS
        /\ q # p /\ CheckingCredentials(q)
        /\ LoginIdentifier(lreq[q]) = LoginIdentifier(lreq[p])

\* C24: rejected attempts do not change the stored count or lastAttempt, and
\* a client answered 429 is let through again on the first attempt made more
\* than 15 minutes after that rejection, which restarts the count at 1.
C24_LockoutEnds ==
    /\ [][\A identifier \in DOMAIN loginAttempts :
             HistoryOf(attemptHistory', identifier).locked
                 => /\ identifier \in DOMAIN loginAttempts'
                    /\ loginAttempts'[identifier] = loginAttempts[identifier]]_vars
    /\ [][\A p \in Procs :
             LET identifier == LoginIdentifier(lreq'[p])
                 e == HistoryOf(attemptHistory, identifier)
             IN  (/\ Received(p)
                  /\ RateLimited(lreq'[p])
                  /\ e.locked
                  /\ now - e.rejectedAt > LOCKOUT_DURATION)
                     => /\ lresp'[p].status # 429
                        /\ CheckingCredentials(p)'
                        /\ loginAttempts'[identifier] = [count |-> 1, lastAttempt |-> now]]_vars

C24_Witness ==
    \E p \in Procs :
        LET identifier == LoginIdentifier(lreq[p])
            e == HistoryOf(attemptHistory, identifier)
        IN  /\ CheckingCredentials(p)
            /\ ~e.locked /\ e.rejectedAt >= 0
            /\ e.last = now /\ now - e.rejectedAt > LOCKOUT_DURATION
            /\ e.permits = 1
            /\ loginAttempts[identifier] = [count |-> 1, lastAttempt |-> now]

(***************************************************************************)
(* Properties of text-to-speech.                                           *)
(***************************************************************************)
\* The handler is in the retry loop.
InRetryLoop == tpc \in {"fetch", "wait"}

\* The loop has ended with an error response.
TtsGaveUp == tpc = "done" /\ tresp.body \in {"TTS generation failed", "fetch failed"}

\* C25: at most 4 provider calls are made per request, the wait before retry
\* k is 1000 * 2^(k-1) ms, no call follows a successful one, and the loop
\* always ends, with the successful response or with an error after the last
\* call.
C25_BoundedBackoff ==
    /\ [](/\ tattempts <= maxRetries + 1
          /\ Len(twaits) <= maxRetries
          /\ \A k \in 1..Len(twaits) : twaits[k] = 1000 * 2^(k - 1)
          /\ tpc = "wait" => Len(twaits) = tattempts
          /\ tpc = "upload" => ttsResponse = "ok"
          /\ TtsGaveUp => tattempts = maxRetries + 1 /\ twaits = << 1000, 2000, 4000 >>)
    /\ [][tattempts' > tattempts => ttsResponse # "ok"]_vars
    /\ (InRetryLoop ~> (tpc \in {"upload", "done"}))

C25_Witness ==
    /\ tpc = "upload"
    /\ ttsResponse = "ok"
    /\ tattempts = maxRetries + 1
    /\ twaits = << 1000, 2000, 4000 >>
    /\ tlog = << <<"failed", 1>>, <<"error", 2>>, <<"failed", 3>> >>

(***************************************************************************)
(* Properties of useDoctorStore.                                           *)
(***************************************************************************)
\* A session is stored and the time elapsed since its login does not exceed
\* its expiry.
WithinExpiry == session # NoSession /\ now - session.loginTime <= session.sessionExpiry

\* The expiry doctor-login grants to the role.
ExpiryGranted(role) ==
    IF role = "emergency_admin" THEN PasskeySessionExpiry ELSE DoctorSessionExpiry

\* C26: the protected dashboard route renders only while a session is stored
\* and the time since login does not exceed the expiry granted at login
\* (8 hours, or 30 minutes for passkey access); once the session has expired
\* or a logout has completed, isSessionValid stays false until a new login.
C26_ValidOnlyWithinExpiry ==
    /\ [](session # NoSession => session.sessionExpiry = ExpiryGranted(session.role))
    /\ [][(view # "dashboard" /\ view' = "dashboard") => WithinExpiry]_vars
    /\ [][(~IsSessionValid(session, now) /\ IsSessionValid(session', now'))
             => logins' = logins + 1]_vars

C26_Witness ==
    /\ view = "access-denied"
    /\ session # NoSession
    /\ session.role = "emergency_admin"
    /\ now - session.loginTime = PasskeySessionExpiry + 1
    /\ \E l \in pendingLogouts : l.epoch = logins

\* A logout's delete returns in this step.
LogoutCompletes(l) == l \in pendingLogouts /\ l \notin pendingLogouts'

\* C28: a logout that started before a login never clears the session that
\* login established: while that session has not expired, the return of the
\* earlier logout's delete leaves it stored.
C28_StaleLogoutKeepsSession ==
    [][\A l \in pendingLogouts :
          (LogoutCompletes(l) /\ l.epoch < logins /\ WithinExpiry) => session' = session]_vars

(***************************************************************************)
(* Properties of PatientPortal.                                            *)
(***************************************************************************)
\* C27: strict mode separation: no result of the other mode is set (and so
\* displayed) in the current mode, also when a request started before a mode
\* switch returns after it, and the two results are never both set.
C27_StrictModeSeparation ==
    /\ symptomResult # NoResult => mode = "symptom"
    /\ medicationResult # NoResult => mode = "medication"
    /\ ~(symptomResult # NoResult /\ medicationResult # NoResult)

(***************************************************************************)
(* Properties of the rule fetch of analyze-symptoms.                       *)
(***************************************************************************)
\* The handler leaves the awaited select on safety_rules in this step.
RulesReturn == fn = "analyze-symptoms" /\ pc = "as_rules" /\ pc' # "as_rules"

\* The request goes on to the external model: no rule, no response yet.
ProceedsToModel ==
    /\ pc' = "as_model"
    /\ matchedRule' = NoRule
    /\ modelCalls' = modelCalls + 1
    /\ status' = 0 /\ error' = ""
    /\ analysisResult' = analysisResult
    /\ patient_queries' = patient_queries

\* C29: when the safety-rule collection cannot be read, or is empty,
\* analyze-symptoms treats the request as having no rule match and proceeds
\* to the external model; it neither fails the request nor forces an
\* override (an override happens only for a rule of the collection that
\* matches the request).
C29_UnreadableRulesMeanNoMatch ==
    [][RulesReturn =>
          /\ \/ ProceedsToModel
             \/ /\ pc' = "as_guidance"
                /\ matchedRule' # NoRule
                /\ matchedRule' = FindRule(safety_rules, req)
                /\ status' = 0
          /\ safety_rules = << >> => ProceedsToModel]_vars

\* The collection holds a rule matching the request, yet the handler is on
\* the model path: the select returned no data.
C29_Witness ==
    /\ fn = "analyze-symptoms"
    /\ pc = "as_model"
    /\ FindRule(safety_rules, req) # NoRule
    /\ matchedRule = NoRule
    /\ modelCalls = 1
    /\ status = 0

(***************************************************************************)
(* Properties of doctor-signup.                                            *)
(***************************************************************************)
\* The stored accounts of a lower-cased email.
AccountsOf(email) == {i \in 1..Len(doctors) : ToLowerCase(doctors[i].email) = email}

\* C30: after any interleaving of doctor-signup requests at most one account
\* exists per lower-cased email, and every account created has status
\* 'pending'.
C30_OneAccountPerEmail ==
    \A i \in 1..Len(doctors) :
        /\ Cardinality(AccountsOf(ToLowerCase(doctors[i].email))) = 1
        /\ doctors[i].status = "pending"

====
